---- MODULE Spec2Model ----
(***************************************************************************)
(* State-machine model of ecoevocrm.gui.animation_controller               *)
(* (class AnimationController): the time-series buffer, the multi-entity   *)
(* buffer, the interpolators, the playback clock, the speed controller,    *)
(* the lineage registry and the event detector; of                         *)
(* ecoevocrm.gui.simulation_worker (the worker process, its bounded queue, *)
(* SimulationWorker) with the run, stop, poll, play / pause and animation  *)
(* handlers of MainWindow and SuppressionWindow and their frame clock; and *)
(* of                                                                      *)
(* ecoevocrm.gui.interpolation_utils.align_xy_for_interp.                  *)
(*                                                                         *)
(* Python floats are modelled as scaled-down floating-point numbers: the   *)
(* integer n stands for the float n / SCALE, and the result of every       *)
(* arithmetic operation is rounded to the nearest number of MantissaBits   *)
(* significant bits (ties to even), as IEEE arithmetic rounds to 53.       *)
(***************************************************************************)
EXTENDS Integers, Sequences, FiniteSets, TLC

\* ------------------------------------------------------------------------
\* Number representation
\* ------------------------------------------------------------------------

\* Resolution of the model's floats (0.01).
SCALE == 100

\* Significant bits of the model's floats (53 in a Python float).
MantissaBits == 20

Abs(x) == IF x < 0 THEN 0 - x ELSE x

RECURSIVE Pow2(_)
Pow2(n) == IF n = 0 THEN 1 ELSE 2 * Pow2(n - 1)

\* Number of bits of a natural number.
RECURSIVE BitLen(_)
BitLen(a) == IF a = 0 THEN 0 ELSE 1 + BitLen(a \div 2)

\* n / d (d > 0) rounded to the nearest integer, ties to even.
RoundDiv(n, d) ==
    LET q == n \div d
        r == n % d
    IN IF 2 * r > d \/ (2 * r = d /\ q % 2 = 1) THEN q + 1 ELSE q

\* x rounded to MantissaBits significant bits.
Round(x) ==
    LET e == BitLen(Abs(x)) - MantissaBits
    IN IF e <= 0 THEN x ELSE RoundDiv(x, Pow2(e)) * Pow2(e)

\* Float +, -, * and /.
FAdd(a, b) == Round(a + b)
FSub(a, b) == Round(a - b)
FMul(a, b) == Round(RoundDiv(a * b, SCALE))
FDiv(a, b) == Round(IF b > 0 THEN RoundDiv(a * SCALE, b)
                             ELSE RoundDiv((0 - a) * SCALE, 0 - b))

Min(a, b) == IF a < b THEN a ELSE b
Max(a, b) == IF a > b THEN a ELSE b

\* Python's None (as a return value: no frame).
None == <<>>

\* ------------------------------------------------------------------------
\* Bounds and input domains
\* ------------------------------------------------------------------------

\* Longest time / value array of an epoch.
MaxEpochLen == 2
\* Frames that advance animation_time between two resets.
MaxTicks == 2
\* Longest mutation event log explored.
MaxEvents == 2
\* Capacity of the data queue (maxsize, 100 in the source).
MaxQueue == 2
\* Calls of progress_callback in one run of the worker process.
MaxCallbacks == 3
\* Runs started in one window.
MaxRuns == 2
\* Seconds of wall-clock time followed by the frame clock.
MaxClock == 5
\* Longest x or y array handed to align_xy_for_interp.
MaxAlignLen == 3

\* Simulation times an epoch may carry (50, 550, 2000).
Times == {50 * SCALE, 550 * SCALE, 2000 * SCALE}
\* Biomass values an epoch may carry (10.0, 30.0).
BiomassVals == {10 * SCALE, 30 * SCALE}
\* Elapsed wall-clock seconds handed to a tick (0, 1000).
Deltas == {0, 1000 * SCALE}
\* Arguments of set_speed: 0.05 (below range), 1.0 (inside), 20.0 (above).
SpeedInputs == {5, 1 * SCALE, 20 * SCALE}

SeqsUpTo(S, n) == UNION {[1..k -> S] : k \in 0..n}

TimeArrays == SeqsUpTo(Times, MaxEpochLen)
\* Value arrays: every length up to MaxEpochLen, either value first.
BiomassArrays ==
    {b \in SeqsUpTo(BiomassVals, MaxEpochLen) :
        \A i \in 1..Len(b) : b[i] = IF i = Len(b) THEN 10 * SCALE ELSE 30 * SCALE}

\* ------------------------------------------------------------------------
\* State
\* ------------------------------------------------------------------------

VARIABLES
    buffer_times,           \* sorted list of simulation times
    buffer_biomass,         \* corresponding biomass values
    buffer_N_by_lineage,    \* list of dicts {lineageID: abundance}
    current_lineageIDs,     \* lineage ids of the latest entity epoch
    mutation_events,        \* list of times when mutations occurred
    animation_time,         \* current playback position
    integration_time,       \* latest time received
    animation_speed,        \* user-controlled speed multiplier
    is_playing,             \* play / pause state
    last_real_time,         \* wall-clock time for frame timing (never set)
    buffer_critical,        \* critical threshold
    buffer_low,             \* low threshold
    lineage_to_global_idx,  \* registry: lineage id -> ordinal
    global_lineage_list,    \* registry: ids in first-appearance order
    ticks,                  \* frames that advanced since the last reset
    call,                   \* the last call: its name, return value, notes
    window,                 \* the window that owns the controller, if any
    process,                \* SimulationWorker.process: none, alive or dead
    worker_pc,              \* where simulation_worker_process stands
    data_queue,             \* SimulationWorker.data_queue, oldest message first
    callback_call_count,    \* calls of progress_callback in this run
    outcome,                \* how the computation of this run ended
    pushed,                 \* the messages this run has put, in order
    emitted,                \* the epochs this run has handed to the callback
    data_timer,             \* the poll timer is active
    animation_timer,        \* the animation timer is active
    run_button,             \* Run is enabled (and Stop is not)
    dialog,                 \* the message box shown last in this run
    runs,                   \* runs started
    poll_pc,                \* where a poll of the main window stands
    current_time,           \* time.time() as a handler has read it last
    last_frame_time,        \* the window's last_frame_time: <<>> or <<time>>
    paused_for              \* wall-clock time of the frames since pause()

\* The worker process, its queue and the window around the controller.
bridge_vars == <<window, process, worker_pc, data_queue, callback_call_count,
                 outcome, pushed, emitted, data_timer, animation_timer,
                 run_button, dialog, runs, poll_pc>>

\* The frame clock of the window.
clock_vars == <<current_time, last_frame_time, paused_for>>

vars == <<buffer_times, buffer_biomass, buffer_N_by_lineage, current_lineageIDs,
          mutation_events, animation_time, integration_time, animation_speed,
          is_playing, last_real_time, buffer_critical, buffer_low,
          lineage_to_global_idx, global_lineage_list, ticks, call, bridge_vars,
          clock_vars>>

\* A dict is a function whose DOMAIN is its key set.
EmptyDict == [k \in {} |-> 0]
DictSet(d, k, v) == [x \in (DOMAIN d) \cup {k} |-> IF x = k THEN v ELSE d[x]]

\* What `call` holds: op, the operation; arg, its numeric argument (the
\* elapsed time of a tick, the speed of set_speed, the time of an
\* interpolation); epoch, the arguments of a feed; ret, its return value;
\* factor, the speed factor a tick computed; skipped, whether
\* add_data_chunk skipped a pair whose time was buffered; front, whether it
\* inserted a pair before a buffered one; clamped, whether the tick cut
\* animation_time back to integration_time; stop, what worker.stop() did:
\* whether it found the process alive and terminated it, whether the
\* process was alive after the grace period, whether it was killed; alias,
\* the 1-based position in buffer_N_by_lineage of the dict that the
\* returned object is (0: the returned object is none of them).
NoStop == [terminated |-> FALSE, alive_after_grace |-> FALSE, killed |-> FALSE]
Call(op) ==
    [op |-> op, arg |-> 0, epoch |-> <<>>, ret |-> None, factor |-> 0,
     skipped |-> FALSE, front |-> FALSE, clamped |-> FALSE, stop |-> NoStop,
     alias |-> 0]

\* AnimationController.__init__(default_speed, buffer_critical, buffer_low):
\* the three arguments are stored as they are given.
Constructed(default_speed, critical, low) ==
    /\ buffer_times = <<>>
    /\ buffer_biomass = <<>>
    /\ buffer_N_by_lineage = <<>>
    /\ current_lineageIDs = <<>>
    /\ mutation_events = <<>>
    /\ animation_time = 0
    /\ integration_time = 0
    /\ animation_speed = default_speed
    /\ is_playing = TRUE
    /\ last_real_time = None
    /\ buffer_critical = critical
    /\ buffer_low = low
    /\ lineage_to_global_idx = EmptyDict
    /\ global_lineage_list = <<>>
    /\ ticks = 0

\* SimulationWorker.__init__ and the window w after its constructor: no
\* process, no queue, both timers created and not started, Run enabled and
\* Stop disabled.
WindowConstructed(w) ==
    /\ window = w
    /\ process = "none"
    /\ worker_pc = "none"
    /\ data_queue = <<>>
    /\ callback_call_count = 0
    /\ outcome = "none"
    /\ pushed = <<>>
    /\ emitted = {}
    /\ data_timer = FALSE
    /\ animation_timer = FALSE
    /\ run_button = TRUE
    /\ dialog = "none"
    /\ runs = 0
    /\ poll_pc = "idle"
    /\ current_time = 0
    /\ last_frame_time = None
    /\ paused_for = 0

\* AnimationController() as both windows construct it (default_speed=1.0,
\* buffer_critical=100, buffer_low=1000), on its own.
Init ==
    /\ Constructed(1 * SCALE, 100 * SCALE, 1000 * SCALE)
    /\ WindowConstructed("none")
    /\ call = Call("init")

\* ------------------------------------------------------------------------
\* Helpers: list operations of the Python runtime
\* ------------------------------------------------------------------------

\* x in a
In(x, a) == \E i \in 1..Len(a) : a[i] = x

\* a[:n]
Take(a, n) == [i \in 1..Min(n, Len(a)) |-> a[i]]

\* a.insert(idx, x) with a 0-based idx
InsertAt(a, idx, x) ==
    [i \in 1..(Len(a) + 1) |->
        IF i <= idx THEN a[i] ELSE IF i = idx + 1 THEN x ELSE a[i - 1]]

\* a.index(x): 0-based position of the first occurrence
IndexOf(a, x) == (CHOOSE i \in 1..Len(a) : a[i] = x /\ \A j \in 1..(i - 1) : a[j] /= x) - 1

\* bisect.bisect_left(a, x): binary search, 0-based result
RECURSIVE BisectLoop(_, _, _, _)
BisectLoop(a, x, lo, hi) ==
    IF lo < hi
    THEN LET mid == (lo + hi) \div 2
         IN IF a[mid + 1] < x THEN BisectLoop(a, x, mid + 1, hi)
                              ELSE BisectLoop(a, x, lo, mid)
    ELSE lo

\* A faulty search: every time is put at the end of the list.
bisect_append(a, x) == Len(a)

bisect_left(a, x) == BisectLoop(a, x, 0, Len(a))

\* ------------------------------------------------------------------------
\* add_data_chunk
\* ------------------------------------------------------------------------

\* An epoch argument: a numpy array (its elements) or a bare scalar.
NdArray(s) == [ndarray |-> TRUE, val |-> s]
Scalar(x) == [ndarray |-> FALSE, val |-> x]

\* The three index-aligned buffers, with the notes `call` keeps of the loop.
Buffers(times, biomass, nby, skipped, front) ==
    [times |-> times, biomass |-> biomass, nby |-> nby, skipped |-> skipped,
     front |-> front]

\* A faulty pass: a time already buffered takes the new value.
InsertPairOverwrite(buf, t, biomass) ==
    IF In(t, buf.times)
    THEN Buffers(buf.times,
                 [buf.biomass EXCEPT ![IndexOf(buf.times, t) + 1] = biomass],
                 buf.nby, TRUE, buf.front)
    ELSE LET idx == bisect_left(buf.times, t)
         IN Buffers(InsertAt(buf.times, idx, t),
                    InsertAt(buf.biomass, idx, biomass),
                    InsertAt(buf.nby, idx, EmptyDict),
                    buf.skipped,
                    buf.front \/ idx < Len(buf.times))

\* A faulty pass: the empty dict is appended instead of inserted at idx.
InsertPairDictAtEnd(buf, t, biomass) ==
    IF In(t, buf.times)
    THEN Buffers(buf.times, buf.biomass, buf.nby, TRUE, buf.front)
    ELSE LET idx == bisect_left(buf.times, t)
         IN Buffers(InsertAt(buf.times, idx, t),
                    InsertAt(buf.biomass, idx, biomass),
                    Append(buf.nby, EmptyDict),
                    buf.skipped,
                    buf.front \/ idx < Len(buf.times))

\* A faulty pass: the value is appended instead of inserted at idx.
InsertPairValueAtEnd(buf, t, biomass) ==
    IF In(t, buf.times)
    THEN Buffers(buf.times, buf.biomass, buf.nby, TRUE, buf.front)
    ELSE LET idx == bisect_left(buf.times, t)
         IN Buffers(InsertAt(buf.times, idx, t),
                    Append(buf.biomass, biomass),
                    InsertAt(buf.nby, idx, EmptyDict),
                    buf.skipped,
                    buf.front \/ idx < Len(buf.times))

\* One pass of `for t, biomass in zip(t_list, biomass_list)`.
InsertPair(buf, t, biomass) ==
    IF In(t, buf.times)
    THEN Buffers(buf.times, buf.biomass, buf.nby, TRUE, buf.front)
    ELSE LET idx == bisect_left(buf.times, t)
         IN Buffers(InsertAt(buf.times, idx, t),
                    InsertAt(buf.biomass, idx, biomass),
                    InsertAt(buf.nby, idx, EmptyDict),
                    buf.skipped,
                    buf.front \/ idx < Len(buf.times))

\* The insertion loop, from pair i on.
RECURSIVE InsertLoop(_, _, _, _)
InsertLoop(buf, t_list, biomass_list, i) ==
    IF i > Len(t_list)
    THEN buf
    ELSE InsertLoop(InsertPair(buf, t_list[i], biomass_list[i]),
                    t_list, biomass_list, i + 1)

\* The conversion to lists and the truncation to the shorter length.
TList(t_epoch) == IF t_epoch.ndarray THEN t_epoch.val ELSE <<t_epoch.val>>
BiomassList(biomass_epoch) ==
    IF biomass_epoch.ndarray THEN biomass_epoch.val ELSE <<biomass_epoch.val>>

\* A faulty truncation: the last elements are kept, not the first.
TruncatedFromEnd(a, b) ==
    IF Len(a) /= Len(b)
    THEN [i \in 1..Min(Len(a), Len(b)) |-> a[Len(a) - Min(Len(a), Len(b)) + i]]
    ELSE a

\* t_list[:min_len], biomass_list[:min_len]
Truncated(a, b) == IF Len(a) /= Len(b) THEN Take(a, Min(Len(a), Len(b))) ELSE a

\* A faulty update: the first buffered time instead of the last.
EarliestTime(times, old) == IF Len(times) > 0 THEN times[1] ELSE old

\* integration_time after a feed: buffer_times[-1] when there is one.
LatestTime(times, old) == IF Len(times) > 0 THEN times[Len(times)] ELSE old

add_data_chunk(t_epoch, biomass_epoch) ==
    LET t_list == Truncated(TList(t_epoch), BiomassList(biomass_epoch))
        biomass_list == Truncated(BiomassList(biomass_epoch), TList(t_epoch))
        buf == InsertLoop(Buffers(buffer_times, buffer_biomass,
                                  buffer_N_by_lineage, FALSE, FALSE),
                          t_list, biomass_list, 1)
    IN /\ buffer_times' = buf.times
       /\ buffer_biomass' = buf.biomass
       /\ buffer_N_by_lineage' = buf.nby
       /\ integration_time' = LatestTime(buf.times, integration_time)
       /\ call' = [Call("add_data_chunk") EXCEPT
                       !.epoch = <<t_epoch, biomass_epoch>>,
                       !.skipped = buf.skipped,
                       !.front = buf.front]
       /\ UNCHANGED <<bridge_vars, clock_vars,
                      current_lineageIDs, mutation_events, animation_time,
                      animation_speed, is_playing, last_real_time,
                      buffer_critical, buffer_low, lineage_to_global_idx,
                      global_lineage_list, ticks>>

\* ------------------------------------------------------------------------
\* Interpolation and speed factor
\* ------------------------------------------------------------------------

\* The buffers as _interpolate_biomass leaves them: cut to the shorter of
\* buffer_times and buffer_biomass when both are non-empty and differ.
BiomassAligned(times, biomass) ==
    IF Len(times) = 0 \/ Len(biomass) = 0 \/ Len(times) = Len(biomass)
    THEN [times |-> times, biomass |-> biomass]
    ELSE [times |-> Take(times, Min(Len(times), Len(biomass))),
          biomass |-> Take(biomass, Min(Len(times), Len(biomass)))]

\* A faulty last value: the value before the last one.
LastValueOffByOne(biomass) == biomass[Max(1, Len(biomass) - 1)]

\* self.buffer_biomass[-1]
LastValue(biomass) == biomass[Len(biomass)]

\* y0 + alpha * (y1 - y0)
Lerp(y0, y1, alpha) == FAdd(y0, FMul(alpha, FSub(y1, y0)))

\* The value _interpolate_biomass(t) returns.
interpolate_biomass(times0, biomass0, t) ==
    IF Len(times0) = 0 \/ Len(biomass0) = 0
    THEN 0
    ELSE LET al == BiomassAligned(times0, biomass0)
             times == al.times
             biomass == al.biomass
         IN IF t <= times[1] THEN biomass[1]
            ELSE IF t >= times[Len(times)] THEN LastValue(biomass)
            ELSE LET idx == bisect_left(times, t)
                     t0 == times[idx]
                     t1 == times[idx + 1]
                     y0 == biomass[idx]
                     y1 == biomass[idx + 1]
                 IN IF t1 = t0 THEN y0
                    ELSE LET alpha == FDiv(FSub(t, t0), FSub(t1, t0))
                         IN Lerp(y0, y1, alpha)

\* _interpolate_biomass(t) as a call: the value it returns and the buffers
\* as it leaves them.
interpolate_biomass_call(t) ==
    LET al == BiomassAligned(buffer_times, buffer_biomass)
    IN /\ buffer_times' = al.times
       /\ buffer_biomass' = al.biomass
       /\ call' = [Call("interpolate_biomass") EXCEPT
                       !.arg = t,
                       !.ret = <<interpolate_biomass(buffer_times,
                                                     buffer_biomass, t)>>]
       /\ UNCHANGED <<bridge_vars, clock_vars,
                      buffer_N_by_lineage, current_lineageIDs,
                      mutation_events, animation_time, integration_time,
                      animation_speed, is_playing, last_real_time,
                      buffer_critical, buffer_low, lineage_to_global_idx,
                      global_lineage_list, ticks>>

\* d.get(k, default)
DictGet(d, k, default) == IF k \in DOMAIN d THEN d[k] ELSE default

\* The three buffers as _interpolate_multi_type_abundance leaves them: cut
\* to the shorter of buffer_times and buffer_N_by_lineage when both are
\* non-empty and differ.
LineageAligned(times, biomass, nby) ==
    IF Len(times) = 0 \/ Len(nby) = 0 \/ Len(times) = Len(nby)
    THEN [times |-> times, biomass |-> biomass, nby |-> nby]
    ELSE LET min_len == Min(Len(times), Len(nby))
         IN [times |-> Take(times, min_len),
             biomass |-> Take(biomass, min_len),
             nby |-> Take(nby, min_len)]

\* A faulty key set: only the ids present on both sides.
all_lineages_common(N_dict0, N_dict1) == (DOMAIN N_dict0) \cap (DOMAIN N_dict1)

\* set(N_dict0.keys()) | set(N_dict1.keys())
all_lineages(N_dict0, N_dict1) == (DOMAIN N_dict0) \cup (DOMAIN N_dict1)

\* The dict _interpolate_multi_type_abundance(t) returns.
interpolate_multi_type_abundance(times0, biomass0, nby0, t) ==
    IF Len(times0) = 0 \/ Len(nby0) = 0
    THEN EmptyDict
    ELSE LET al == LineageAligned(times0, biomass0, nby0)
             times == al.times
             nby == al.nby
         IN IF t <= times[1] THEN nby[1]
            ELSE IF t >= times[Len(times)] THEN nby[Len(nby)]
            ELSE LET idx == bisect_left(times, t)
                     t0 == times[idx]
                     t1 == times[idx + 1]
                     N_dict0 == nby[idx]
                     N_dict1 == nby[idx + 1]
                     alpha == IF t1 > t0
                              THEN FDiv(FSub(t, t0), FSub(t1, t0))
                              ELSE 0
                 IN [lineage_id \in all_lineages(N_dict0, N_dict1) |->
                        Lerp(DictGet(N_dict0, lineage_id, 0),
                             DictGet(N_dict1, lineage_id, 0), alpha)]

\* A faulty return: the buffered dict itself, not a copy.
dict_itself(idx) == idx

\* self.buffer_N_by_lineage[idx - 1].copy(): a new dict, none of the
\* buffered ones.
dict_copy(idx) == 0

\* Which buffered dict the object returned by
\* _interpolate_multi_type_abundance(t) is: {} and N_interp are new dicts,
\* the two edge cases return copies.
returned_dict(times0, biomass0, nby0, t) ==
    IF Len(times0) = 0 \/ Len(nby0) = 0
    THEN 0
    ELSE LET al == LineageAligned(times0, biomass0, nby0)
         IN IF t <= al.times[1] THEN dict_copy(1)
            ELSE IF t >= al.times[Len(al.times)] THEN dict_copy(Len(al.nby))
            ELSE 0

\* _interpolate_multi_type_abundance(t) as a call.
interpolate_multi_type_abundance_call(t) ==
    LET al == LineageAligned(buffer_times, buffer_biomass, buffer_N_by_lineage)
    IN /\ buffer_times' = al.times
       /\ buffer_biomass' = al.biomass
       /\ buffer_N_by_lineage' = al.nby
       /\ call' = [Call("interpolate_multi_type_abundance") EXCEPT
                       !.arg = t,
                       !.ret = <<interpolate_multi_type_abundance(
                                    buffer_times, buffer_biomass,
                                    buffer_N_by_lineage, t)>>,
                       !.alias = returned_dict(buffer_times, buffer_biomass,
                                               buffer_N_by_lineage, t)]
       /\ UNCHANGED <<bridge_vars, clock_vars,
                      current_lineageIDs, mutation_events, animation_time,
                      integration_time, animation_speed, is_playing,
                      last_real_time, buffer_critical, buffer_low,
                      lineage_to_global_idx, global_lineage_list, ticks>>

\* A faulty ramp: the proportion is taken from the wrong end.
speed_factor_reversed(buffer_gap, critical, low) ==
    IF buffer_gap < critical
    THEN 10
    ELSE IF buffer_gap < low
         THEN LET proportion == FDiv(FSub(critical, buffer_gap),
                                     FSub(low, critical))
              IN FAdd(10, FMul(90, proportion))
         ELSE 1 * SCALE

\* A faulty ramp: the proportion is taken of low, not of low - critical.
speed_factor_wide(buffer_gap, critical, low) ==
    IF buffer_gap < critical
    THEN 10
    ELSE IF buffer_gap < low
         THEN LET proportion == FDiv(FSub(buffer_gap, critical), low)
              IN FAdd(10, FMul(90, proportion))
         ELSE 1 * SCALE

\* get_speed_factor, for a buffer gap and the two thresholds.
speed_factor_of(buffer_gap, critical, low) ==
    IF buffer_gap < critical
    THEN 10
    ELSE IF buffer_gap < low
         THEN LET proportion == FDiv(FSub(buffer_gap, critical),
                                     FSub(low, critical))
              IN FAdd(10, FMul(90, proportion))
         ELSE 1 * SCALE

get_speed_factor ==
    speed_factor_of(FSub(integration_time, animation_time),
                    buffer_critical, buffer_low)

\* get_speed_factor() as a call.
get_speed_factor_call ==
    /\ call' = [Call("get_speed_factor") EXCEPT !.ret = <<get_speed_factor>>]
    /\ UNCHANGED <<bridge_vars, clock_vars,
                   buffer_times, buffer_biomass, buffer_N_by_lineage,
                   current_lineageIDs, mutation_events, animation_time,
                   integration_time, animation_speed, is_playing,
                   last_real_time, buffer_critical, buffer_low,
                   lineage_to_global_idx, global_lineage_list, ticks>>

\* The health get_buffer_status reports for a buffer gap.
health_of(buffer_gap, critical, low) ==
    IF buffer_gap >= low THEN "healthy"
    ELSE IF buffer_gap >= critical THEN "low"
    ELSE "critical"

\* The dict get_buffer_status() returns.
get_buffer_status ==
    LET buffer_gap == FSub(integration_time, animation_time)
    IN [buffer_gap |-> buffer_gap,
        buffer_size |-> Len(buffer_times),
        speed_factor |-> get_speed_factor,
        health |-> health_of(buffer_gap, buffer_critical, buffer_low)]

\* get_buffer_status() as a call.
get_buffer_status_call ==
    /\ call' = [Call("get_buffer_status") EXCEPT !.ret = <<get_buffer_status>>]
    /\ UNCHANGED <<bridge_vars, clock_vars,
                   buffer_times, buffer_biomass, buffer_N_by_lineage,
                   current_lineageIDs, mutation_events, animation_time,
                   integration_time, animation_speed, is_playing,
                   last_real_time, buffer_critical, buffer_low,
                   lineage_to_global_idx, global_lineage_list, ticks>>

\* [t for t in self.mutation_events if t_start <= t <= t_end]
get_mutation_events_in_range(t_start, t_end) ==
    SelectSeq(mutation_events, LAMBDA t : t_start <= t /\ t <= t_end)

\* get_mutation_events_in_range(t_start, t_end) as a call.
get_mutation_events_in_range_call(t_start, t_end) ==
    /\ call' = [Call("get_mutation_events_in_range") EXCEPT
                    !.epoch = <<t_start, t_end>>,
                    !.ret = <<get_mutation_events_in_range(t_start, t_end)>>]
    /\ UNCHANGED <<bridge_vars, clock_vars,
                   buffer_times, buffer_biomass, buffer_N_by_lineage,
                   current_lineageIDs, mutation_events, animation_time,
                   integration_time, animation_speed, is_playing,
                   last_real_time, buffer_critical, buffer_low,
                   lineage_to_global_idx, global_lineage_list, ticks>>

\* The caller of _interpolate_multi_type_abundance sets a key of the dict
\* it was returned: the dict changes, and with it the buffered dict if the
\* returned object is one.
caller_sets_key ==
    /\ call.op = "interpolate_multi_type_abundance"
    /\ call.ret /= None
    /\ buffer_N_by_lineage' =
          IF call.alias > 0
          THEN [buffer_N_by_lineage EXCEPT
                   ![call.alias] = DictSet(@, "caller", 0)]
          ELSE buffer_N_by_lineage
    /\ call' = [Call("caller_sets_key") EXCEPT
                    !.arg = call.arg,
                    !.ret = <<DictSet(call.ret[1], "caller", 0)>>,
                    !.alias = call.alias]
    /\ UNCHANGED <<bridge_vars, clock_vars,
                   buffer_times, buffer_biomass,
                   current_lineageIDs, mutation_events, animation_time,
                   integration_time, animation_speed, is_playing,
                   last_real_time, buffer_critical, buffer_low,
                   lineage_to_global_idx, global_lineage_list, ticks>>

\* ------------------------------------------------------------------------
\* get_next_frame
\* ------------------------------------------------------------------------

\* A faulty advance: no clamp.
AdvancedUnclamped(anim, integ, delta_anim_time) == FAdd(anim, delta_anim_time)

\* animation_time after the advance and the clamp.
Advanced(anim, integ, delta_anim_time) ==
    IF FAdd(anim, delta_anim_time) > integ
    THEN integ
    ELSE FAdd(anim, delta_anim_time)

\* A faulty guard: the pause is ignored.
NoFrameIgnoringPause(playing, times) == Len(times) = 0

\* The two early returns: paused, or no data in the buffer yet.
NoFrame(playing, times) == ~playing \/ Len(times) = 0

\* A faulty product: the speed factor is left out.
delta_anim_time_unthrottled(real_time_delta, speed, speed_factor) ==
    FMul(real_time_delta, speed)

\* real_time_delta * self.animation_speed * speed_factor
delta_anim_time_of(real_time_delta, speed, speed_factor) ==
    FMul(FMul(real_time_delta, speed), speed_factor)

controller_get_next_frame(real_time_delta) ==
    IF NoFrame(is_playing, buffer_times)
    THEN /\ call' = [Call("get_next_frame") EXCEPT !.arg = real_time_delta]
         /\ UNCHANGED <<bridge_vars,
                        buffer_times, buffer_biomass, buffer_N_by_lineage,
                        current_lineageIDs, mutation_events, animation_time,
                        integration_time, animation_speed, is_playing,
                        last_real_time, buffer_critical, buffer_low,
                        lineage_to_global_idx, global_lineage_list, ticks>>
    ELSE LET speed_factor == get_speed_factor
             delta_anim_time == delta_anim_time_of(real_time_delta,
                                                   animation_speed, speed_factor)
             anim == Advanced(animation_time, integration_time, delta_anim_time)
             al == BiomassAligned(buffer_times, buffer_biomass)
             biomass == interpolate_biomass(buffer_times, buffer_biomass, anim)
         IN /\ delta_anim_time > 0 => ticks < MaxTicks
            /\ ticks' = IF delta_anim_time > 0 THEN ticks + 1 ELSE ticks
            /\ animation_time' = anim
            /\ buffer_times' = al.times
            /\ buffer_biomass' = al.biomass
            /\ call' = [Call("get_next_frame") EXCEPT
                            !.arg = real_time_delta,
                            !.ret = <<anim, biomass>>,
                            !.factor = speed_factor,
                            !.clamped = FAdd(animation_time, delta_anim_time)
                                            > integration_time]
            /\ UNCHANGED <<bridge_vars,
                           buffer_N_by_lineage, current_lineageIDs,
                           mutation_events, integration_time, animation_speed,
                           is_playing, last_real_time, buffer_critical,
                           buffer_low, lineage_to_global_idx,
                           global_lineage_list>>

\* get_next_frame(real_time_delta) called with a given elapsed time: the
\* frame clock of the window is not read.
get_next_frame(real_time_delta) ==
    /\ controller_get_next_frame(real_time_delta)
    /\ UNCHANGED clock_vars

\* ------------------------------------------------------------------------
\* play, pause, set_speed, reset
\* ------------------------------------------------------------------------

play ==
    /\ is_playing' = TRUE
    /\ call' = Call("play")
    /\ UNCHANGED <<bridge_vars, clock_vars,
                   buffer_times, buffer_biomass, buffer_N_by_lineage,
                   current_lineageIDs, mutation_events, animation_time,
                   integration_time, animation_speed, last_real_time,
                   buffer_critical, buffer_low, lineage_to_global_idx,
                   global_lineage_list, ticks>>

pause ==
    /\ is_playing' = FALSE
    /\ call' = Call("pause")
    /\ UNCHANGED <<bridge_vars, clock_vars,
                   buffer_times, buffer_biomass, buffer_N_by_lineage,
                   current_lineageIDs, mutation_events, animation_time,
                   integration_time, animation_speed, last_real_time,
                   buffer_critical, buffer_low, lineage_to_global_idx,
                   global_lineage_list, ticks>>

\* max(0.1, min(speed, 10.0))
ClampSpeed(speed) == Max(10, Min(speed, 10 * SCALE))

set_speed(speed) ==
    /\ animation_speed' = ClampSpeed(speed)
    /\ call' = [Call("set_speed") EXCEPT !.arg = speed]
    /\ UNCHANGED <<bridge_vars, clock_vars,
                   buffer_times, buffer_biomass, buffer_N_by_lineage,
                   current_lineageIDs, mutation_events, animation_time,
                   integration_time, is_playing, last_real_time,
                   buffer_critical, buffer_low, lineage_to_global_idx,
                   global_lineage_list, ticks>>

reset ==
    /\ buffer_times' = <<>>
    /\ buffer_biomass' = <<>>
    /\ buffer_N_by_lineage' = <<>>
    /\ current_lineageIDs' = <<>>
    /\ mutation_events' = <<>>
    /\ animation_time' = 0
    /\ integration_time' = 0
    /\ is_playing' = TRUE
    /\ last_real_time' = None
    /\ ticks' = 0
    /\ call' = Call("reset")
    /\ UNCHANGED <<bridge_vars, clock_vars,
                   animation_speed, buffer_critical, buffer_low,
                   lineage_to_global_idx, global_lineage_list>>


\* ------------------------------------------------------------------------
\* add_multi_type_data_chunk
\* ------------------------------------------------------------------------

\* An abundance array N_epoch: ndim 2 with shape (shape0, shape1) and rows
\* of shape1 values, or ndim 1 with shape (shape0,) and one value per row.
Matrix(shape1, rows) ==
    [ndim |-> 2, shape0 |-> Len(rows), shape1 |-> shape1, rows |-> rows]
Vector(values) ==
    [ndim |-> 1, shape0 |-> Len(values), shape1 |-> 0,
     rows |-> [r \in 1..Len(values) |-> <<values[r]>>]]

\* A faulty registry: an id gets its position in the epoch's id list.
RECURSIVE RegisterLoopByPosition(_, _, _)
RegisterLoopByPosition(reg, lineageIDs, i) ==
    IF i > Len(lineageIDs)
    THEN reg
    ELSE LET lid == lineageIDs[i]
         IN IF lid \in DOMAIN reg.idx
            THEN RegisterLoopByPosition(reg, lineageIDs, i + 1)
            ELSE RegisterLoopByPosition([idx |-> DictSet(reg.idx, lid, i - 1),
                                         list |-> Append(reg.list, lid)],
                                        lineageIDs, i + 1)

\* The registry after `for lid in lineageIDs`, from position i on.
RECURSIVE RegisterLoop(_, _, _)
RegisterLoop(reg, lineageIDs, i) ==
    IF i > Len(lineageIDs)
    THEN reg
    ELSE LET lid == lineageIDs[i]
         IN IF lid \in DOMAIN reg.idx
            THEN RegisterLoop(reg, lineageIDs, i + 1)
            ELSE RegisterLoop([idx |-> DictSet(reg.idx, lid, Len(reg.list)),
                               list |-> Append(reg.list, lid)],
                              lineageIDs, i + 1)

\* A faulty lookup: always the first column of the matrix.
AbundanceFirstColumn(N_epoch, type_idx, i) == N_epoch.rows[type_idx + 1][1]

\* The abundance written for row type_idx at the i-th time (both 0-based):
\* N_epoch[type_idx, i], N_epoch[type_idx, -1] past the last column,
\* N_epoch[type_idx] for a vector, 0.0 on an IndexError.
Abundance(N_epoch, type_idx, i) ==
    IF N_epoch.ndim > 1
    THEN IF i < N_epoch.shape1
         THEN N_epoch.rows[type_idx + 1][i + 1]
         ELSE IF N_epoch.shape1 > 0
              THEN N_epoch.rows[type_idx + 1][N_epoch.shape1]
              ELSE 0
    ELSE N_epoch.rows[type_idx + 1][1]

\* `for type_idx, lineage_id in enumerate(lineageIDs)`, from type_idx on.
RECURSIVE TypeLoop(_, _, _, _, _)
TypeLoop(d, N_epoch, lineageIDs, i, type_idx) ==
    IF type_idx >= Len(lineageIDs)
    THEN d
    ELSE TypeLoop(IF type_idx < N_epoch.shape0
                  THEN DictSet(d, lineageIDs[type_idx + 1],
                               Abundance(N_epoch, type_idx, i))
                  ELSE d,
                  N_epoch, lineageIDs, i, type_idx + 1)

\* A faulty loop: a time that is not buffered ends the loop.
RECURSIVE TimeLoopBreak(_, _, _, _, _, _)
TimeLoopBreak(nby, times, t_list, N_epoch, lineageIDs, i) ==
    IF i >= Len(t_list) \/ ~In(t_list[i + 1], times)
    THEN nby
    ELSE LET idx == IndexOf(times, t_list[i + 1])
         IN TimeLoopBreak([nby EXCEPT ![idx + 1] =
                              TypeLoop(@, N_epoch, lineageIDs, i, 0)],
                          times, t_list, N_epoch, lineageIDs, i + 1)

\* `for i, t in enumerate(t_list)`, from i on (0-based).
RECURSIVE TimeLoop(_, _, _, _, _, _)
TimeLoop(nby, times, t_list, N_epoch, lineageIDs, i) ==
    IF i >= Len(t_list)
    THEN nby
    ELSE LET t == t_list[i + 1]
         IN IF ~In(t, times)
            THEN TimeLoop(nby, times, t_list, N_epoch, lineageIDs, i + 1)
            ELSE LET idx == IndexOf(times, t)
                 IN TimeLoop([nby EXCEPT ![idx + 1] =
                                 TypeLoop(@, N_epoch, lineageIDs, i, 0)],
                             times, t_list, N_epoch, lineageIDs, i + 1)

\* The event log after the mutation check of an epoch.
Detected(events, prev_num_types, new_num_types, t_list) ==
    IF new_num_types > prev_num_types /\ Len(t_list) > 0
    THEN Append(events, t_list[Len(t_list)])
    ELSE events

\* A faulty truncation: the last ids are kept, not the first.
min_types_from_end(N_epoch, lineageIDs) ==
    IF N_epoch.shape0 /= Len(lineageIDs)
    THEN LET n == Min(N_epoch.shape0, Len(lineageIDs))
         IN [i \in 1..n |-> lineageIDs[Len(lineageIDs) - n + i]]
    ELSE lineageIDs

\* lineageIDs[:min_types] when the number of rows differs from the number
\* of ids.
min_types(N_epoch, lineageIDs) ==
    IF N_epoch.shape0 /= Len(lineageIDs)
    THEN Take(lineageIDs, Min(N_epoch.shape0, Len(lineageIDs)))
    ELSE lineageIDs

add_multi_type_data_chunk(t_epoch, N_epoch, lineageIDs0) ==
    LET reg == RegisterLoop([idx |-> lineage_to_global_idx,
                             list |-> global_lineage_list], lineageIDs0, 1)
        t_list0 == TList(t_epoch)
        expected_time_points == IF N_epoch.ndim > 1 THEN N_epoch.shape1 ELSE 1
        lineageIDs == min_types(N_epoch, lineageIDs0)
        t_list == IF Len(t_list0) /= expected_time_points
                  THEN Take(t_list0, Min(Len(t_list0), expected_time_points))
                  ELSE t_list0
        events == Detected(mutation_events, Len(current_lineageIDs),
                           Len(lineageIDs), t_list)
    IN /\ Len(events) <= MaxEvents
       /\ lineage_to_global_idx' = reg.idx
       /\ global_lineage_list' = reg.list
       /\ mutation_events' = events
       /\ current_lineageIDs' = lineageIDs
       /\ buffer_N_by_lineage' =
             TimeLoop(buffer_N_by_lineage, buffer_times, t_list, N_epoch,
                      lineageIDs, 0)
       /\ integration_time' = LatestTime(buffer_times, integration_time)
       /\ call' = [Call("add_multi_type_data_chunk") EXCEPT
                       !.epoch = <<t_epoch, N_epoch, lineageIDs0>>]
       /\ UNCHANGED <<bridge_vars, clock_vars,
                      buffer_times, buffer_biomass, animation_time,
                      animation_speed, is_playing, last_real_time,
                      buffer_critical, buffer_low, ticks>>

\* ------------------------------------------------------------------------
\* The controller as a value: reset and the two feeds inside a handler
\* ------------------------------------------------------------------------

\* The fields of the controller that reset and the feeds write.
Controller ==
    [times |-> buffer_times, biomass |-> buffer_biomass,
     nby |-> buffer_N_by_lineage, ids |-> current_lineageIDs,
     events |-> mutation_events, anim |-> animation_time,
     integ |-> integration_time, playing |-> is_playing,
     idx |-> lineage_to_global_idx, list |-> global_lineage_list,
     ticks |-> ticks]

\* The controller after a handler has left it as c.
SetController(c) ==
    /\ buffer_times' = c.times
    /\ buffer_biomass' = c.biomass
    /\ buffer_N_by_lineage' = c.nby
    /\ current_lineageIDs' = c.ids
    /\ mutation_events' = c.events
    /\ animation_time' = c.anim
    /\ integration_time' = c.integ
    /\ is_playing' = c.playing
    /\ lineage_to_global_idx' = c.idx
    /\ global_lineage_list' = c.list
    /\ ticks' = c.ticks
    /\ UNCHANGED <<animation_speed, last_real_time, buffer_critical, buffer_low>>

\* A faulty reset: the event log and the playback position are kept.
reset_keeping_position(c) ==
    [c EXCEPT !.times = <<>>, !.biomass = <<>>, !.nby = <<>>, !.ids = <<>>,
              !.integ = 0, !.playing = TRUE, !.ticks = 0]

\* reset() on the controller c.
reset_of(c) ==
    [c EXCEPT !.times = <<>>, !.biomass = <<>>, !.nby = <<>>, !.ids = <<>>,
              !.events = <<>>, !.anim = 0, !.integ = 0, !.playing = TRUE,
              !.ticks = 0]

\* add_data_chunk(t_epoch, biomass_epoch) on the controller c.
add_data_chunk_to(c, t_epoch, biomass_epoch) ==
    LET t_list == Truncated(TList(t_epoch), BiomassList(biomass_epoch))
        biomass_list == Truncated(BiomassList(biomass_epoch), TList(t_epoch))
        buf == InsertLoop(Buffers(c.times, c.biomass, c.nby, FALSE, FALSE),
                          t_list, biomass_list, 1)
    IN [c EXCEPT !.times = buf.times, !.biomass = buf.biomass,
                 !.nby = buf.nby, !.integ = LatestTime(buf.times, c.integ)]

\* add_multi_type_data_chunk(t_epoch, N_epoch, lineageIDs0) on the
\* controller c.
add_multi_type_data_chunk_to(c, t_epoch, N_epoch, lineageIDs0) ==
    LET reg == RegisterLoop([idx |-> c.idx, list |-> c.list], lineageIDs0, 1)
        t_list0 == TList(t_epoch)
        expected_time_points == IF N_epoch.ndim > 1 THEN N_epoch.shape1 ELSE 1
        lineageIDs == min_types(N_epoch, lineageIDs0)
        t_list == IF Len(t_list0) /= expected_time_points
                  THEN Take(t_list0, Min(Len(t_list0), expected_time_points))
                  ELSE t_list0
    IN [c EXCEPT !.idx = reg.idx, !.list = reg.list,
                 !.events = Detected(c.events, Len(c.ids), Len(lineageIDs),
                                     t_list),
                 !.ids = lineageIDs,
                 !.nby = TimeLoop(c.nby, c.times, t_list, N_epoch,
                                  lineageIDs, 0),
                 !.integ = LatestTime(c.times, c.integ)]

\* ------------------------------------------------------------------------
\* simulation_worker_process: the worker process and its queue
\* ------------------------------------------------------------------------

\* The data an epoch hands to progress_callback: one time, two times out
\* of order with the first, and the two times again with other values.
BridgeEpochs ==
    <<[t_epoch |-> NdArray(<<550 * SCALE>>),
       biomass_epoch |-> NdArray(<<30 * SCALE>>),
       N_epoch |-> Matrix(1, <<<<2 * SCALE>>, <<1 * SCALE>>>>),
       lineageIDs |-> <<"A", "B">>],
      [t_epoch |-> NdArray(<<50 * SCALE>>),
       biomass_epoch |-> NdArray(<<10 * SCALE>>),
       N_epoch |-> Matrix(1, <<<<1 * SCALE>>>>),
       lineageIDs |-> <<"A">>],
      [t_epoch |-> NdArray(<<50 * SCALE, 550 * SCALE>>),
       biomass_epoch |-> NdArray(<<30 * SCALE, 10 * SCALE>>),
       N_epoch |-> Matrix(2, <<<<2 * SCALE, 3 * SCALE>>>>),
       lineageIDs |-> <<"A">>]>>

\* A message of the queue. A data message is the dict of an epoch (its
\* number in BridgeEpochs) and has no 'status' key (status ""); a status
\* message has the key with 'completed' or 'error'.
DataMessage(k) == [status |-> "", epoch |-> k]
StatusMessage(status) == [status |-> status, epoch |-> 0]

\* mp.Queue(maxsize=MaxQueue) has no free slot.
Full(queue) == Len(queue) >= MaxQueue

\* data_queue.put(message, timeout=0.5) inside try / except Exception: the
\* queue after it. On a queue that stays full for the timeout put raises
\* queue.Full, which the callback catches: the message is dropped.
put_timeout(queue, message) ==
    IF Full(queue) THEN queue ELSE Append(queue, message)

\* A faulty status: every run reports 'completed'.
status_always_completed(pc) == "completed"

\* The status the process puts from where it stands: 'completed' after
\* community.run has returned (line 200), 'error' from the influx check
\* (line 122) and from the except branch (line 213).
status_of(pc) == IF pc = "put_completed" THEN "completed" ELSE "error"

\* The steps of the worker leave the controller and the window alone.
WorkerStep ==
    /\ call' = Call("simulation_worker_process")
    /\ UNCHANGED <<buffer_times, buffer_biomass, buffer_N_by_lineage,
                   current_lineageIDs, mutation_events, animation_time,
                   integration_time, animation_speed, is_playing,
                   last_real_time, buffer_critical, buffer_low,
                   lineage_to_global_idx, global_lineage_list, ticks,
                   window, data_timer, animation_timer, run_button, dialog,
                   runs, poll_pc, clock_vars>>

\* Lines 92-185: the parameters are read and the Community is built. The
\* influx array has the wrong length (the error is put at line 122), an
\* exception is raised (the except branch), or community.run is entered.
worker_params ==
    /\ process = "alive"
    /\ worker_pc = "params"
    /\ \E r \in {"mismatch", "raised", "ok"} :
          /\ worker_pc' = IF r = "ok" THEN "run"
                          ELSE IF r = "mismatch" THEN "put_mismatch"
                          ELSE "put_error"
          /\ outcome' = IF r = "ok" THEN outcome ELSE "failed"
    /\ WorkerStep
    /\ UNCHANGED <<process, data_queue, callback_call_count, pushed, emitted>>

\* progress_callback(data), called by community.run with epoch k.
progress_callback(k) ==
    /\ process = "alive"
    /\ worker_pc = "run"
    /\ callback_call_count < MaxCallbacks
    /\ callback_call_count' = callback_call_count + 1
    /\ emitted' = emitted \cup {k}
    /\ data_queue' = put_timeout(data_queue, DataMessage(k))
    /\ pushed' = IF Full(data_queue) THEN pushed
                 ELSE Append(pushed, DataMessage(k))
    /\ WorkerStep
    /\ UNCHANGED <<process, worker_pc, outcome>>

\* community.run(...) returns (line 191).
run_returns ==
    /\ process = "alive"
    /\ worker_pc = "run"
    /\ worker_pc' = "put_completed"
    /\ outcome' = "finished"
    /\ WorkerStep
    /\ UNCHANGED <<process, data_queue, callback_call_count, pushed, emitted>>

\* community.run(...) raises an Exception (lines 191, 202).
run_raises ==
    /\ process = "alive"
    /\ worker_pc = "run"
    /\ worker_pc' = "put_error"
    /\ outcome' = "failed"
    /\ WorkerStep
    /\ UNCHANGED <<process, data_queue, callback_call_count, pushed, emitted>>

\* data_queue.put({'status': ...}) at lines 122, 200 and 213: no timeout,
\* so the call returns only once the queue has a free slot.
put_status ==
    /\ process = "alive"
    /\ worker_pc \in {"put_mismatch", "put_completed", "put_error"}
    /\ ~Full(data_queue)
    /\ data_queue' = Append(data_queue, StatusMessage(status_of(worker_pc)))
    /\ pushed' = Append(pushed, StatusMessage(status_of(worker_pc)))
    /\ worker_pc' = "return"
    /\ WorkerStep
    /\ UNCHANGED <<process, callback_call_count, outcome, emitted>>

\* The function has returned: the process ends.
process_exit ==
    /\ process = "alive"
    /\ worker_pc = "return"
    /\ process' = "dead"
    /\ WorkerStep
    /\ UNCHANGED <<worker_pc, data_queue, callback_call_count, outcome,
                   pushed, emitted>>

\* Every step of the worker process.
Worker ==
    \/ worker_params
    \/ \E k \in 1..Len(BridgeEpochs) : progress_callback(k)
    \/ run_returns
    \/ run_raises
    \/ put_status
    \/ process_exit

\* ------------------------------------------------------------------------
\* SimulationWorker and the handlers of the two windows
\* ------------------------------------------------------------------------

\* `while not self.data_queue.empty()`: get_nowait() into data_chunks.
RECURSIVE get_data_loop(_, _)
get_data_loop(queue, data_chunks) ==
    IF queue = <<>>
    THEN data_chunks
    ELSE get_data_loop(Tail(queue), Append(data_chunks, Head(queue)))

\* A faulty drain: the newest message comes first.
get_data_newest_first(queue) ==
    [i \in 1..Len(queue) |-> queue[Len(queue) + 1 - i]]

\* SimulationWorker.get_data(): the list it returns; the queue is left
\* empty.
get_data(queue) == get_data_loop(queue, <<>>)

\* A faulty stop: a process that outlives the grace period is not killed.
worker_stop_without_kill(proc, survives) ==
    IF proc = "alive"
    THEN [process |-> IF survives THEN "alive" ELSE "dead",
          stop |-> [terminated |-> TRUE, alive_after_grace |-> survives,
                    killed |-> FALSE]]
    ELSE [process |-> proc, stop |-> NoStop]

\* SimulationWorker.stop() on the process proc: terminate() and
\* join(timeout=2.0) when it is alive, then kill() and join() when it is
\* still alive; survives says whether the process outlives the grace
\* period.
worker_stop(proc, survives) ==
    IF proc = "alive"
    THEN [process |-> "dead",
          stop |-> [terminated |-> TRUE, alive_after_grace |-> survives,
                    killed |-> survives]]
    ELSE [process |-> proc, stop |-> NoStop]

\* What a handler writes of the worker and the window.
Window ==
    [process |-> process, data_timer |-> data_timer,
     animation_timer |-> animation_timer, run_button |-> run_button,
     dialog |-> dialog, stop |-> NoStop]

\* The worker and the window after a handler has left them as ui. A
\* process that was terminated is nowhere in its code any more.
SetWindow(ui) ==
    /\ process' = ui.process
    /\ data_timer' = ui.data_timer
    /\ animation_timer' = ui.animation_timer
    /\ run_button' = ui.run_button
    /\ dialog' = ui.dialog
    /\ worker_pc' = IF ui.stop.terminated THEN "terminated" ELSE worker_pc
    /\ UNCHANGED <<window, callback_call_count, outcome, pushed, emitted, runs>>

\* on_stop_clicked() of both windows: worker.stop(), both timers stopped,
\* Run enabled and Stop disabled.
stop_clicked(ui, survives) ==
    LET st == worker_stop(ui.process, survives)
    IN [ui EXCEPT !.process = st.process,
                  !.stop = IF st.stop.terminated THEN st.stop ELSE @,
                  !.data_timer = FALSE,
                  !.animation_timer = FALSE,
                  !.run_button = TRUE]

\* SuppressionWindow.on_simulation_completed(): the poll timer is stopped,
\* the animation timer keeps running, Run is enabled, and the dialog
\* "Simulation Complete" is shown.
simulation_completed(ui) ==
    [ui EXCEPT !.data_timer = FALSE, !.run_button = TRUE,
               !.dialog = "information"]

\* on_run_clicked() of both windows with valid parameters: reset(),
\* worker.start(params) with a new queue and a new process, both timers
\* started, Run disabled and Stop enabled.
on_run_clicked ==
    /\ window /= "none"
    /\ run_button
    /\ runs < MaxRuns
    /\ SetController(reset_of(Controller))
    /\ data_queue' = <<>>
    /\ process' = "alive"
    /\ worker_pc' = "params"
    /\ callback_call_count' = 0
    /\ outcome' = "none"
    /\ pushed' = <<>>
    /\ emitted' = {}
    /\ data_timer' = TRUE
    /\ animation_timer' = TRUE
    /\ run_button' = FALSE
    /\ dialog' = "none"
    /\ runs' = runs + 1
    /\ last_frame_time' = IF window = "main" THEN None ELSE <<current_time>>
    /\ paused_for' = 0
    /\ call' = Call("on_run_clicked")
    /\ UNCHANGED <<window, poll_pc, current_time>>

\* on_stop_clicked() as the handler of the Stop button.
on_stop_clicked ==
    /\ window /= "none"
    /\ ~run_button
    /\ \E survives \in BOOLEAN :
          LET ui == stop_clicked(Window, survives)
          IN /\ SetWindow(ui)
             /\ call' = [Call("on_stop_clicked") EXCEPT !.stop = ui.stop]
    /\ UNCHANGED <<buffer_times, buffer_biomass, buffer_N_by_lineage,
                   current_lineageIDs, mutation_events, animation_time,
                   integration_time, animation_speed, is_playing,
                   last_real_time, buffer_critical, buffer_low,
                   lineage_to_global_idx, global_lineage_list, ticks,
                   data_queue, poll_pc, clock_vars>>

\* `for chunk in data_chunks` of MainWindow.poll_data, from chunk i on; st
\* holds the controller and the window.
RECURSIVE poll_data_loop(_, _, _, _)
poll_data_loop(st, data_chunks, i, survives) ==
    IF i > Len(data_chunks)
    THEN st
    ELSE LET chunk == data_chunks[i]
             epoch == BridgeEpochs[chunk.epoch]
         IN poll_data_loop(
               IF chunk.status /= ""
               THEN IF chunk.status = "completed"
                    THEN [st EXCEPT !.ui = [stop_clicked(@, survives)
                                               EXCEPT !.dialog = "information"]]
                    ELSE IF chunk.status = "error"
                         THEN [st EXCEPT !.ui = [stop_clicked(@, survives)
                                                    EXCEPT !.dialog = "critical"]]
                         ELSE st
               ELSE [st EXCEPT !.c = add_data_chunk_to(@, epoch.t_epoch,
                                                       epoch.biomass_epoch)],
               data_chunks, i + 1, survives)

\* MainWindow.poll_data() when the worker process takes no step during the
\* poll: the queue is drained, each chunk is handled, and a process that
\* is not running while the poll timer is active is reported as
\* terminated unexpectedly.
poll_data ==
    /\ window = "main"
    /\ data_timer
    /\ \E survives \in BOOLEAN :
          LET data_chunks == get_data(data_queue)
              st == poll_data_loop([c |-> Controller, ui |-> Window],
                                   data_chunks, 1, survives)
              ui == IF st.ui.process /= "alive" /\ st.ui.data_timer
                    THEN [stop_clicked(st.ui, survives)
                             EXCEPT !.dialog = "warning"]
                    ELSE st.ui
          IN /\ data_queue' = <<>>
             /\ SetController(st.c)
             /\ SetWindow(ui)
             /\ call' = [Call("poll_data") EXCEPT !.ret = <<data_chunks>>,
                                                  !.stop = ui.stop]
    /\ UNCHANGED <<poll_pc, clock_vars>>

\* MainWindow.poll_data() up to the end of its chunk loop (lines 285-338):
\* the queue is drained and each chunk is handled. The worker process runs
\* on while the poll stands before its liveness check.
poll_data_get_data ==
    /\ window = "main"
    /\ data_timer
    /\ poll_pc = "idle"
    /\ \E survives \in BOOLEAN :
          LET data_chunks == get_data(data_queue)
              st == poll_data_loop([c |-> Controller, ui |-> Window],
                                   data_chunks, 1, survives)
          IN /\ data_queue' = <<>>
             /\ SetController(st.c)
             /\ SetWindow(st.ui)
             /\ call' = [Call("poll_data") EXCEPT !.ret = <<data_chunks>>,
                                                  !.stop = st.ui.stop]
    /\ poll_pc' = "is_running"
    /\ UNCHANGED clock_vars

\* The rest of MainWindow.poll_data() (lines 343-354): a process that is
\* not running now, while the poll timer is active, is reported as
\* terminated unexpectedly.
poll_data_is_running ==
    /\ window = "main"
    /\ poll_pc = "is_running"
    /\ \E survives \in BOOLEAN :
          LET ui == IF process /= "alive" /\ data_timer
                    THEN [stop_clicked(Window, survives)
                             EXCEPT !.dialog = "warning"]
                    ELSE Window
          IN /\ SetWindow(ui)
             /\ call' = [Call("poll_data") EXCEPT !.stop = ui.stop]
    /\ poll_pc' = "idle"
    /\ UNCHANGED <<buffer_times, buffer_biomass, buffer_N_by_lineage,
                   current_lineageIDs, mutation_events, animation_time,
                   integration_time, animation_speed, is_playing,
                   last_real_time, buffer_critical, buffer_low,
                   lineage_to_global_idx, global_lineage_list, ticks,
                   data_queue, clock_vars>>

\* SuppressionWindow.process_data_chunk(data) on the controller c.
process_data_chunk(c, epoch) ==
    LET fed == add_data_chunk_to(c, epoch.t_epoch, epoch.biomass_epoch)
    IN IF Len(epoch.lineageIDs) > 0
       THEN add_multi_type_data_chunk_to(fed, epoch.t_epoch, epoch.N_epoch,
                                         epoch.lineageIDs)
       ELSE fed

\* `for data in data_chunks` of SuppressionWindow.on_poll_timer.
RECURSIVE on_poll_timer_loop(_, _, _, _)
on_poll_timer_loop(st, data_chunks, i, survives) ==
    IF i > Len(data_chunks)
    THEN st
    ELSE LET data == data_chunks[i]
         IN on_poll_timer_loop(
               IF data.status /= ""
               THEN IF data.status = "completed"
                    THEN [st EXCEPT !.ui = simulation_completed(@)]
                    ELSE IF data.status = "error"
                         THEN [st EXCEPT !.ui = stop_clicked(
                                  [@ EXCEPT !.dialog = "critical"], survives)]
                         ELSE st
               ELSE [st EXCEPT !.c = process_data_chunk(@,
                                        BridgeEpochs[data.epoch])],
               data_chunks, i + 1, survives)

\* SuppressionWindow.on_poll_timer(): when the worker is not running the
\* run is reported as completed and the queue is not read; otherwise the
\* queue is drained and each chunk is handled.
on_poll_timer ==
    /\ window = "suppression"
    /\ data_timer
    /\ UNCHANGED <<poll_pc, clock_vars>>
    /\ IF process /= "alive"
       THEN /\ SetWindow(simulation_completed(Window))
            /\ call' = Call("on_poll_timer")
            /\ UNCHANGED <<buffer_times, buffer_biomass, buffer_N_by_lineage,
                           current_lineageIDs, mutation_events, animation_time,
                           integration_time, animation_speed, is_playing,
                           last_real_time, buffer_critical, buffer_low,
                           lineage_to_global_idx, global_lineage_list, ticks,
                           data_queue>>
       ELSE \E survives \in BOOLEAN :
               LET data_chunks == get_data(data_queue)
                   st == on_poll_timer_loop([c |-> Controller, ui |-> Window],
                                            data_chunks, 1, survives)
               IN /\ data_queue' = <<>>
                  /\ SetController(st.c)
                  /\ SetWindow(st.ui)
                  /\ call' = [Call("on_poll_timer") EXCEPT
                                  !.ret = <<data_chunks>>,
                                  !.stop = st.ui.stop]

\* MainWindow.animate_frame(): get_next_frame with the time elapsed since
\* the last frame, whatever it is (animate_frame_at follows the clock).
animate_frame ==
    /\ window = "main"
    /\ animation_timer
    /\ \E real_time_delta \in Deltas : get_next_frame(real_time_delta)

\* SuppressionWindow.on_animation_timer(): get_next_frame with the time
\* elapsed since the last frame, whatever it is (on_animation_timer_at
\* follows the clock).
on_animation_timer ==
    /\ window = "suppression"
    /\ animation_timer
    /\ \E real_time_delta \in Deltas : get_next_frame(real_time_delta)

\* Seconds from one call of the animation timer to the next: a frame in
\* time, a frame after a stall.
TickIntervals == {1 * SCALE, 2 * SCALE}

\* `real_time_delta = 0.016  # Default to 16ms`, to the unit 1/SCALE.
DefaultDelta == 2

\* A faulty frame clock: a paused frame keeps the old last_frame_time.
frame_time_kept_while_paused(playing, last, now) ==
    IF playing THEN <<now>> ELSE last

\* `self.last_frame_time = current_time` of both timer handlers, before
\* get_next_frame is called: playing or not.
frame_time(playing, last, now) == <<now>>

\* toggle_play_pause() of both windows: pause() when playing, else play();
\* the main window also forgets last_frame_time when it resumes.
toggle_play_pause ==
    /\ window /= "none"
    /\ is_playing' = ~is_playing
    /\ last_frame_time' = IF window = "main" /\ ~is_playing
                          THEN None
                          ELSE last_frame_time
    /\ paused_for' = IF is_playing THEN 0 ELSE paused_for
    /\ call' = Call(IF is_playing THEN "pause" ELSE "play")
    /\ UNCHANGED <<bridge_vars, current_time,
                   buffer_times, buffer_biomass, buffer_N_by_lineage,
                   current_lineageIDs, mutation_events, animation_time,
                   integration_time, animation_speed, last_real_time,
                   buffer_critical, buffer_low, lineage_to_global_idx,
                   global_lineage_list, ticks>>

\* What a timer handler that runs at the time now does to the clock.
FrameClock(now) ==
    /\ current_time' = now
    /\ paused_for' = IF is_playing
                     THEN paused_for
                     ELSE paused_for + (now - current_time)

\* MainWindow.animate_frame() when time.time() returns now: the first
\* frame after last_frame_time was forgotten only stores the time; every
\* other frame stores it and calls get_next_frame with the time elapsed
\* since the stored one.
animate_frame_at(now) ==
    /\ window = "main"
    /\ animation_timer
    /\ FrameClock(now)
    /\ IF last_frame_time = None
       THEN /\ last_frame_time' = <<now>>
            /\ call' = Call("animate_frame")
            /\ UNCHANGED <<bridge_vars,
                           buffer_times, buffer_biomass, buffer_N_by_lineage,
                           current_lineageIDs, mutation_events, animation_time,
                           integration_time, animation_speed, is_playing,
                           last_real_time, buffer_critical, buffer_low,
                           lineage_to_global_idx, global_lineage_list, ticks>>
       ELSE /\ last_frame_time' = frame_time(is_playing, last_frame_time, now)
            /\ controller_get_next_frame(now - last_frame_time[1])

\* SuppressionWindow.on_animation_timer() when time.time() returns now:
\* the time is stored and get_next_frame is called with the time elapsed
\* since the stored one (16 ms when none is stored).
on_animation_timer_at(now) ==
    /\ window = "suppression"
    /\ animation_timer
    /\ FrameClock(now)
    /\ last_frame_time' = frame_time(is_playing, last_frame_time, now)
    /\ controller_get_next_frame(IF last_frame_time = None
                                 THEN DefaultDelta
                                 ELSE now - last_frame_time[1])

\* ------------------------------------------------------------------------
\* interpolation_utils.align_xy_for_interp
\* ------------------------------------------------------------------------

\* The non-finite elements of a float array: inf is above and -inf below
\* every finite float of the model, nan is apart from them.
PosInf == Pow2(MantissaBits + 10)
NegInf == 0 - PosInf
NaN == PosInf + 1

\* Bits of an element of a uint8 array.
Uint8Bits == 8

\* An argument x or y: a numpy array of dtype float64 or uint8 and its
\* rows: a scalar (ndim 0) and a 1-d array (ndim 1) have one row, a 2-d
\* array has shape[0] rows.
Array(dtype, ndim, rows) == [dtype |-> dtype, ndim |-> ndim, rows |-> rows]

\* np.asarray(a).ravel(): the elements in row-major order.
RECURSIVE ravel_rows(_, _)
ravel_rows(rows, i) ==
    IF i > Len(rows) THEN <<>> ELSE rows[i] \o ravel_rows(rows, i + 1)

ravel(a) == ravel_rows(a.rows, 1)

\* np.isfinite(v)
isfinite(v) == v \notin {NaN, PosInf, NegInf}

\* a[idx] for a list idx of 1-based positions.
TakeAt(a, idx) == [k \in 1..Len(idx) |-> a[idx[k]]]

\* The elements of the set S of integers in ascending order.
RECURSIVE Ascending(_)
Ascending(S) ==
    IF S = {} THEN <<>>
    ELSE LET least == CHOOSE v \in S : \A w \in S : v <= w
         IN <<least>> \o Ascending(S \ {least})

\* a[mask] for a boolean mask: the positions where the mask holds.
MaskPositions(mask) == Ascending({i \in 1..Len(mask) : mask[i]})

\* np.diff(x_arr) in the dtype of x_arr: a float difference, or a
\* difference that wraps around in 8 bits.
diff(x_arr, dtype) ==
    [i \in 1..(Len(x_arr) - 1) |->
        IF dtype = "uint8"
        THEN (x_arr[i + 1] - x_arr[i]) % Pow2(Uint8Bits)
        ELSE FSub(x_arr[i + 1], x_arr[i])]

\* np.argsort(x_arr) with the default kind, which is not stable: any
\* order of the positions that sorts x_arr.
argsort(x_arr) ==
    {sort_idx \in [1..Len(x_arr) -> 1..Len(x_arr)] :
        /\ \A i, j \in 1..Len(x_arr) : i /= j => sort_idx[i] /= sort_idx[j]
        /\ \A i \in 1..(Len(x_arr) - 1) :
              x_arr[sort_idx[i]] <= x_arr[sort_idx[i + 1]]}

\* np.unique(x_arr, return_index=True)[1]: for each value, in ascending
\* order of the values, the position of its first occurrence.
unique_index(x_arr) ==
    LET values == Ascending({x_arr[i] : i \in 1..Len(x_arr)})
    IN [k \in 1..Len(values) |-> IndexOf(x_arr, values[k]) + 1]

\* What the function returns: (x_arr, y_arr, status) with status['valid'],
\* or (None, None, status).
Aligned(x_arr, y_arr) == [valid |-> TRUE, x |-> x_arr, y |-> y_arr]
NotAligned == [valid |-> FALSE, x |-> None, y |-> None]

\* Step 6: sorted by x if x is not found strictly increasing; the pairs
\* <<x_arr, y_arr>> it may leave.
align_sort(x_arr, y_arr, dtype) ==
    IF /\ Len(x_arr) > 1
       /\ ~(\A i \in 1..(Len(x_arr) - 1) : diff(x_arr, dtype)[i] > 0)
    THEN {<<TakeAt(x_arr, sort_idx), TakeAt(y_arr, sort_idx)>> :
             sort_idx \in argsort(x_arr)}
    ELSE {<<x_arr, y_arr>>}

\* A faulty Step 7: duplicate x values are kept.
align_keep_duplicates(x_arr, y_arr) == <<x_arr, y_arr>>

\* Step 7: the first occurrence of each x is kept, in the order of the
\* array.
align_dedupe(x_arr, y_arr) ==
    LET unique_idx == unique_index(x_arr)
        kept == Ascending({unique_idx[k] : k \in 1..Len(unique_idx)})
    IN IF Len(x_arr) > 1 /\ Len(unique_idx) < Len(x_arr)
       THEN <<TakeAt(x_arr, kept), TakeAt(y_arr, kept)>>
       ELSE <<x_arr, y_arr>>

\* align_xy_for_interp(x, y, min_points): the values it may return.
align_xy_for_interp(x, y, min_points) ==
    LET x_in == ravel(x)
        y_in == ravel(y)
        min_len == Min(Len(x_in), Len(y_in))
        x_cut == IF Len(x_in) /= Len(y_in) THEN Take(x_in, min_len) ELSE x_in
        y_cut == IF Len(x_in) /= Len(y_in) THEN Take(y_in, min_len) ELSE y_in
        valid_mask == [i \in 1..Len(x_cut) |->
                          isfinite(x_cut[i]) /\ isfinite(y_cut[i])]
        x_fin == TakeAt(x_cut, MaskPositions(valid_mask))
        y_fin == TakeAt(y_cut, MaskPositions(valid_mask))
    IN IF Len(x_in) = 0 \/ Len(y_in) = 0
       THEN {NotAligned}
       ELSE IF Len(x_fin) < min_points
       THEN {NotAligned}
       ELSE {LET xy == align_dedupe(sorted[1], sorted[2])
             IN IF Len(xy[1]) < min_points
                THEN NotAligned
                ELSE Aligned(xy[1], xy[2]) :
                sorted \in align_sort(x_fin, y_fin, x.dtype)}

\* The call align_xy_for_interp(x, y, min_points) returns.
align_returns ==
    /\ call.op = "align_xy_for_interp"
    /\ call.ret = None
    /\ \E result \in align_xy_for_interp(call.epoch[1], call.epoch[2],
                                         call.arg) :
          call' = [call EXCEPT !.ret = <<result>>]
    /\ UNCHANGED <<bridge_vars, clock_vars,
                   buffer_times, buffer_biomass, buffer_N_by_lineage,
                   current_lineageIDs, mutation_events, animation_time,
                   integration_time, animation_speed, is_playing,
                   last_real_time, buffer_critical, buffer_low,
                   lineage_to_global_idx, global_lineage_list, ticks>>

\* ------------------------------------------------------------------------
\* Specifications
\* ------------------------------------------------------------------------

\* Calls of add_data_chunk of a playback run: each time alone, two times
\* out of order, two scalars.
PlaybackEpochs ==
    {<<NdArray(<<t>>), NdArray(<<10 * SCALE>>)>> : t \in Times}
    \cup {<<NdArray(<<2000 * SCALE, 50 * SCALE>>),
             NdArray(<<30 * SCALE, 10 * SCALE>>)>>,
           <<Scalar(550 * SCALE), Scalar(30 * SCALE)>>}

\* The playback clock and the speed controller over the time-series
\* buffer: every operation of the controller but the entity feed, which
\* writes none of the variables these operations read.
Next ==
    \/ \E e \in PlaybackEpochs : add_data_chunk(e[1], e[2])
    \/ \E real_time_delta \in Deltas : get_next_frame(real_time_delta)
    \/ play
    \/ pause
    \/ \E speed \in SpeedInputs : set_speed(speed)
    \/ reset

Spec == Init /\ [][Next]_vars

\* Calls of add_data_chunk: arrays of any two lengths over all the times,
\* in any order, or two scalars.
ScalarEpochs ==
    {<<NdArray(t), NdArray(b)>> : t \in TimeArrays, b \in BiomassArrays}
    \cup {<<Scalar(t), Scalar(30 * SCALE)>> : t \in Times}

\* The time-series buffer under every order of arrival: the scalar feed,
\* the tick (with no time elapsed), play, pause and reset.
NextBuffer ==
    \/ \E e \in ScalarEpochs : add_data_chunk(e[1], e[2])
    \/ get_next_frame(0)
    \/ play
    \/ pause
    \/ reset

SpecBuffer == Init /\ [][NextBuffer]_vars

\* Calls of add_data_chunk of an entity run: in order, out of order, a
\* time twice, arrays of two lengths, two scalars.
EntityRunEpochs ==
    {<<NdArray(<<50 * SCALE>>), NdArray(<<10 * SCALE>>)>>,
     <<NdArray(<<550 * SCALE>>), NdArray(<<30 * SCALE>>)>>,
     <<NdArray(<<550 * SCALE, 50 * SCALE>>), NdArray(<<10 * SCALE, 30 * SCALE>>)>>,
     <<NdArray(<<550 * SCALE, 550 * SCALE>>), NdArray(<<10 * SCALE, 30 * SCALE>>)>>,
     <<NdArray(<<50 * SCALE, 550 * SCALE>>), NdArray(<<30 * SCALE>>)>>,
     <<Scalar(550 * SCALE), Scalar(10 * SCALE)>>}

\* Calls of add_multi_type_data_chunk: the id lists, the abundance arrays
\* (shapes (1,2), (2,1) and (1,)) and the time arrays of an entity epoch.
IdLists == {<<"A">>, <<"A", "B">>}
Matrices ==
    {Matrix(2, <<<<1 * SCALE, 2 * SCALE>>>>),
     Matrix(1, <<<<2 * SCALE>>, <<1 * SCALE>>>>),
     Vector(<<2 * SCALE>>)}
EntityTimeArrays ==
    {<<50 * SCALE>>, <<50 * SCALE, 550 * SCALE>>, <<2000 * SCALE, 550 * SCALE>>}

\* The time-series buffer, the multi-entity buffer, the lineage registry
\* and the event detector: both feeds, the tick (with no time elapsed, so
\* that the playback clock stands still), play, pause and reset.
NextEntity ==
    \/ \E e \in EntityRunEpochs : add_data_chunk(e[1], e[2])
    \/ \E t \in EntityTimeArrays, N \in Matrices, ids \in IdLists :
          add_multi_type_data_chunk(NdArray(t), N, ids)
    \/ get_next_frame(0)
    \/ play
    \/ pause
    \/ reset

SpecEntity == Init /\ [][NextEntity]_vars

\* Times and values of the points the interpolator is given: 0, 5 and 10;
\* 0, 0.01, 100 and a value whose difference to 0.01 needs one bit more
\* than a float holds.
InterpTimes == {0, 5 * SCALE, 10 * SCALE}
InterpVals == {0, 1, 100 * SCALE, Pow2(MantissaBits + 1)}
\* Times an interpolation is asked for: the buffered ones, times between
\* them (2.5, 7.5, 9.99) and a time beyond them (15).
QueryTimes == InterpTimes \cup {250, 750, 999, 15 * SCALE}

\* The scalar interpolator over every buffer of up to three points: the
\* scalar feed, one point a call, and _interpolate_biomass at any time.
NextInterp ==
    \/ \E t \in InterpTimes, v \in InterpVals :
          add_data_chunk(NdArray(<<t>>), NdArray(<<v>>))
    \/ \E t \in QueryTimes : interpolate_biomass_call(t)

SpecInterp == Init /\ [][NextInterp]_vars

\* Entity epochs the entity interpolator is given: {A: 1} or {A: 2, B: 4}
\* at one of the times.
InterpEntityEpochs ==
    {<<NdArray(<<t>>), e[1], e[2]>> :
        t \in InterpTimes,
        e \in {<<Vector(<<1 * SCALE>>), <<"A">>>>,
                <<Matrix(1, <<<<2 * SCALE>>, <<4 * SCALE>>>>), <<"A", "B">>>>}}

\* The entity interpolator: both feeds, one time a call, reset, and
\* _interpolate_multi_type_abundance at the times between the buffered ones.
NextInterpEntity ==
    \/ \E t \in InterpTimes :
          add_data_chunk(NdArray(<<t>>), NdArray(<<100 * SCALE>>))
    \/ \E e \in InterpEntityEpochs :
          add_multi_type_data_chunk(e[1], e[2], e[3])
    \/ \E t \in {250, 5 * SCALE, 750} : interpolate_multi_type_abundance_call(t)
    \/ reset

SpecInterpEntity == Init /\ [][NextInterpEntity]_vars

\* Entity epochs of a run whose lineages appear one after another: one
\* time an epoch, an abundance vector of one value per id, and id lists of
\* one, two and three ids in more than one order; and an epoch of two
\* times with two ids.
LineageTimes == {50 * SCALE, 550 * SCALE}
LineageIdLists == {<<"A">>, <<"B">>, <<"B", "A">>, <<"A", "B", "C">>}
LineageEpochs ==
    {<<NdArray(<<t>>), Vector([i \in 1..Len(ids) |-> i * SCALE]), ids>> :
        t \in LineageTimes, ids \in LineageIdLists}
    \cup {<<NdArray(<<50 * SCALE, 550 * SCALE>>),
             Matrix(2, <<<<1 * SCALE, 1 * SCALE>>, <<2 * SCALE, 3 * SCALE>>>>),
             <<"A", "B">>>>}

\* The lineage registry and the event detector: both feeds and reset.
NextLineages ==
    \/ \E t \in LineageTimes :
          add_data_chunk(NdArray(<<t>>), NdArray(<<10 * SCALE>>))
    \/ \E e \in LineageEpochs : add_multi_type_data_chunk(e[1], e[2], e[3])
    \/ reset

SpecLineages == Init /\ [][NextLineages]_vars

\* A window with its controller and its worker process: the runs, the
\* stop, both timers and every step of the worker process.
NextBridge ==
    \/ on_run_clicked
    \/ on_stop_clicked
    \/ poll_data
    \/ on_poll_timer
    \/ animate_frame
    \/ on_animation_timer
    \/ worker_params
    \/ \E k \in 1..Len(BridgeEpochs) : progress_callback(k)
    \/ run_returns
    \/ run_raises
    \/ put_status
    \/ process_exit

\* MainWindow.__init__ or SuppressionWindow.__init__.
InitBridge ==
    /\ Constructed(1 * SCALE, 100 * SCALE, 1000 * SCALE)
    /\ \E w \in {"main", "suppression"} : WindowConstructed(w)
    /\ call = Call("init")

\* The controller constructed with any default_speed, and its operations
\* that read or write the speed, the clock or the buffer.
NextSpeed ==
    \/ \E speed \in SpeedInputs : set_speed(speed)
    \/ \E e \in PlaybackEpochs : add_data_chunk(e[1], e[2])
    \/ \E real_time_delta \in Deltas : get_next_frame(real_time_delta)
    \/ reset

\* AnimationController(default_speed=...), on its own.
InitSpeed ==
    /\ \E default_speed \in SpeedInputs :
          Constructed(default_speed, 100 * SCALE, 1000 * SCALE)
    /\ WindowConstructed("none")
    /\ call = Call("init")

SpecSpeed == InitSpeed /\ [][NextSpeed]_vars

SpecBridge == InitBridge /\ [][NextBridge]_vars

\* The main window with its worker process, the poll in its two steps: the
\* handlers of the window run one at a time (a handler starts when no poll
\* is under way), the worker process runs at any time.
NextPoll ==
    \/ poll_pc = "idle" /\ on_run_clicked
    \/ poll_pc = "idle" /\ on_stop_clicked
    \/ poll_pc = "idle" /\ animate_frame
    \/ poll_data_get_data
    \/ poll_data_is_running
    \/ worker_params
    \/ \E k \in 1..Len(BridgeEpochs) : progress_callback(k)
    \/ run_returns
    \/ run_raises
    \/ put_status
    \/ process_exit

\* MainWindow.__init__.
InitPoll ==
    /\ Constructed(1 * SCALE, 100 * SCALE, 1000 * SCALE)
    /\ WindowConstructed("main")
    /\ call = Call("init")

SpecPoll == InitPoll /\ [][NextPoll]_vars

\* The times of the epochs fed while the frame clock is followed.
ClockFeedTimes == {50 * SCALE, 550 * SCALE}

\* A window with its frame clock: the run, the play / pause button, the
\* speed, the frames of the animation timer at their wall-clock times, and
\* the epochs as a poll feeds them.
NextClock ==
    \/ on_run_clicked
    \/ toggle_play_pause
    \/ \E speed \in SpeedInputs : set_speed(speed)
    \/ \E d \in TickIntervals :
          /\ current_time + d <= MaxClock * SCALE
          /\ animate_frame_at(current_time + d)
    \/ \E d \in TickIntervals :
          /\ current_time + d <= MaxClock * SCALE
          /\ on_animation_timer_at(current_time + d)
    \/ \E t \in ClockFeedTimes :
          add_data_chunk(NdArray(<<t>>), NdArray(<<10 * SCALE>>))

SpecClock == InitBridge /\ [][NextClock]_vars

\* Times far enough apart that a short frame is below the spacing of the
\* floats near animation_time, and one ordinary time.
CatchUpTimes == {50 * SCALE, Pow2(MantissaBits + 1), Pow2(MantissaBits + 2)}
\* Elapsed times of a frame: 0.01 s and 30000 s.
CatchUpDeltas == {1, 30000 * SCALE}
\* Arguments of set_speed: 0.05 (clamped to 0.1) and 1.0.
CatchUpSpeeds == {5, 1 * SCALE}

\* Playback that is never paused: the feed, the speed and the frames.
NextCatchUp ==
    \/ \E t \in CatchUpTimes :
          add_data_chunk(NdArray(<<t>>), NdArray(<<10 * SCALE>>))
    \/ \E speed \in CatchUpSpeeds : set_speed(speed)
    \/ \E real_time_delta \in CatchUpDeltas : get_next_frame(real_time_delta)

SpecCatchUp == Init /\ [][NextCatchUp]_vars

\* Floats of an x array (1.0, 2.0, nan, inf), elements of a uint8 x array,
\* floats of a y array (10.0, 20.0, nan).
AlignFloats == {1 * SCALE, 2 * SCALE, NaN, PosInf}
AlignBytes == {0, 1, Pow2(Uint8Bits) - 1}
AlignValues == {10 * SCALE, 20 * SCALE, NaN}

\* The x arguments: float and uint8 arrays of every length, and a scalar.
AlignXs ==
    {Array("float64", 1, <<d>>) : d \in SeqsUpTo(AlignFloats, MaxAlignLen)}
    \cup {Array("uint8", 1, <<d>>) : d \in SeqsUpTo(AlignBytes, MaxAlignLen)}
    \cup {Array("float64", 0, <<<<2 * SCALE>>>>)}

\* The y arguments: float arrays of every length, a scalar, and arrays of
\* shape (2, 1).
AlignYs ==
    {Array("float64", 1, <<d>>) : d \in SeqsUpTo(AlignValues, MaxAlignLen)}
    \cup {Array("float64", 0, <<<<10 * SCALE>>>>)}
    \cup {Array("float64", 2, <<<<d[1]>>, <<d[2]>>>>) : d \in [1..2 -> AlignValues]}

\* A call of align_xy_for_interp with any of the arguments, until it
\* returns.
NextAlign == align_returns

InitAlign ==
    /\ Constructed(1 * SCALE, 100 * SCALE, 1000 * SCALE)
    /\ WindowConstructed("none")
    /\ \E x \in AlignXs, y \in AlignYs, min_points \in 1..MaxAlignLen :
          call = [Call("align_xy_for_interp") EXCEPT !.epoch = <<x, y>>,
                                                     !.arg = min_points]

SpecAlign == InitAlign /\ [][NextAlign]_vars

\* Times and entity epochs the queries are asked over: {A: 1} or
\* {A: 2, B: 4} at 0 or at 10.
QueryFeedTimes == {0, 10 * SCALE}
QueryEntityEpochs ==
    {e \in InterpEntityEpochs : \E t \in QueryFeedTimes : e[1] = NdArray(<<t>>)}

\* The queries of the controller over buffers of up to two times: both
\* feeds, the tick, the five queries at a buffered time, between two and
\* beyond the last, and a caller that writes into the dict it was
\* returned.
NextQueries ==
    \/ \E t \in QueryFeedTimes :
          add_data_chunk(NdArray(<<t>>), NdArray(<<100 * SCALE>>))
    \/ \E e \in QueryEntityEpochs :
          add_multi_type_data_chunk(e[1], e[2], e[3])
    \/ get_next_frame(1000 * SCALE)
    \/ \E t \in {0, 250, 15 * SCALE} : interpolate_biomass_call(t)
    \/ \E t \in {0, 250, 15 * SCALE} : interpolate_multi_type_abundance_call(t)
    \/ get_speed_factor_call
    \/ get_buffer_status_call
    \/ get_mutation_events_in_range_call(0, 5 * SCALE)
    \/ caller_sets_key

SpecQueries == Init /\ [][NextQueries]_vars

\* Thresholds the controller is constructed with (100, 1000): critical
\* below low, equal to it and above it.
ThresholdInputs == {100 * SCALE, 1000 * SCALE}

\* The controller constructed with any two thresholds: the scalar feed,
\* the tick, get_speed_factor and get_buffer_status.
NextThresholds ==
    \/ \E e \in PlaybackEpochs : add_data_chunk(e[1], e[2])
    \/ \E real_time_delta \in Deltas : get_next_frame(real_time_delta)
    \/ get_speed_factor_call
    \/ get_buffer_status_call

\* AnimationController(buffer_critical=..., buffer_low=...), on its own.
InitThresholds ==
    /\ \E critical \in ThresholdInputs, low \in ThresholdInputs :
          Constructed(1 * SCALE, critical, low)
    /\ WindowConstructed("none")
    /\ call = Call("init")

SpecThresholds == InitThresholds /\ [][NextThresholds]_vars

\* ------------------------------------------------------------------------
\* Properties
\* ------------------------------------------------------------------------

Tick == "get_next_frame"
Feed == "add_data_chunk"
EntityFeed == "add_multi_type_data_chunk"

\* The 1-based position of a buffered time.
PosOf(times, t) == IndexOf(times, t) + 1

\* C1: in every reachable state animation_time <= integration_time; the
\* tick clamps, it never waits.
AnimationNeverAhead == animation_time <= integration_time

\* A tick has cut animation_time back to a positive integration_time.
ClampedAtIntegration ==
    /\ call.op = Tick
    /\ call.clamped
    /\ animation_time = integration_time
    /\ integration_time > 0

\* C2: buffer_times is strictly increasing after every add_data_chunk, in
\* whatever order the times arrive.
BufferTimesStrictlyIncreasing ==
    \A i \in 1..(Len(buffer_times) - 1) : buffer_times[i] < buffer_times[i + 1]

\* A feed has put a time before buffered ones, and three times are buffered.
InsertedOutOfOrder ==
    /\ call.op = Feed
    /\ call.front
    /\ Len(buffer_times) = 3

\* C3: a pair whose time is already buffered changes nothing: an
\* add_data_chunk that adds no new time leaves the three buffers as they
\* were, and every add_data_chunk leaves each buffered time its value.
DuplicateTimeIsNoOp ==
    [][call'.op = Feed =>
          /\ Len(buffer_times') = Len(buffer_times) =>
                UNCHANGED <<buffer_times, buffer_biomass, buffer_N_by_lineage>>
          /\ \A i \in 1..Len(buffer_times) :
                /\ In(buffer_times[i], buffer_times')
                /\ buffer_biomass'[PosOf(buffer_times', buffer_times[i])]
                      = buffer_biomass[i]]_vars

\* A feed has skipped a buffered time whose entity map holds data.
DuplicateSkipped ==
    /\ call.op = Feed
    /\ call.skipped
    /\ \E i \in 1..Len(buffer_N_by_lineage) : buffer_N_by_lineage[i] /= EmptyDict

\* C4: the three buffers have one length in every state; add_data_chunk
\* gives a new time an empty entity map at the index of the time, and each
\* time buffered before keeps its value and its entity map.
BuffersAligned ==
    /\ Len(buffer_times) = Len(buffer_biomass)
    /\ Len(buffer_biomass) = Len(buffer_N_by_lineage)

IndexAligned ==
    [][/\ BuffersAligned
       /\ BuffersAligned'
       /\ call'.op = Feed =>
             \A j \in 1..Len(buffer_times') :
                IF In(buffer_times'[j], buffer_times)
                THEN LET i == PosOf(buffer_times, buffer_times'[j])
                     IN /\ buffer_biomass'[j] = buffer_biomass[i]
                        /\ buffer_N_by_lineage'[j] = buffer_N_by_lineage[i]
                ELSE buffer_N_by_lineage'[j] = EmptyDict]_vars

\* A feed has put a new time before a time whose entity map holds data.
InsertedBeforeEntityData ==
    /\ call.op = Feed
    /\ call.front
    /\ Len(buffer_times) = 2
    /\ buffer_N_by_lineage[1] = EmptyDict
    /\ buffer_N_by_lineage[2] /= EmptyDict

\* C5: a tick that returns a frame never moves animation_time back, and the
\* time of its frame is at most integration_time.
MonotonicAnimationTime ==
    [][(call'.op = Tick /\ call'.ret /= None) =>
          /\ animation_time' >= animation_time
          /\ call'.ret[1] <= integration_time']_vars

\* Two ticks have advanced animation_time and data is still ahead.
AdvancedTwice ==
    /\ call.op = Tick
    /\ ticks = 2
    /\ ~call.clamped
    /\ animation_time < integration_time

\* C6: after a feed of either kind that leaves the buffer non-empty,
\* integration_time is buffer_times[-1], the greatest buffered time, and
\* it is not smaller than before the feed.
IntegrationTimeIsLatest ==
    [][(call'.op \in {Feed, EntityFeed} /\ Len(buffer_times') > 0) =>
          /\ integration_time' = buffer_times'[Len(buffer_times')]
          /\ \A i \in 1..Len(buffer_times') : buffer_times'[i] <= integration_time'
          /\ integration_time' >= integration_time]_vars

\* A feed has put a time before the latest one: the last time fed is not
\* the greatest.
FedBehindLatest ==
    /\ call.op = Feed
    /\ call.front
    /\ integration_time = 550 * SCALE

\* C7: a tick while playing with a non-empty buffer sets animation_time to
\* min(integration_time, animation_time + delta * speed * factor(gap)),
\* the gap taken before the advance, and returns that time with the
\* biomass interpolated at it.
TickAdvance ==
    [][(call'.op = Tick /\ is_playing /\ Len(buffer_times) > 0) =>
          LET gap == FSub(integration_time, animation_time)
              factor == speed_factor_of(gap, buffer_critical, buffer_low)
              target == Min(integration_time,
                            FAdd(animation_time,
                                 FMul(FMul(call'.arg, animation_speed), factor)))
          IN /\ animation_time' = target
             /\ call'.ret = <<target,
                              interpolate_biomass(buffer_times', buffer_biomass',
                                                  target)>>]_vars

\* A tick of 1000 s at speed 0.1 with a gap of 550 has advanced by 55.
RampAdvance ==
    /\ call.op = Tick
    /\ call.arg = 1000 * SCALE
    /\ animation_speed = 10
    /\ animation_time = 55 * SCALE
    /\ integration_time = 550 * SCALE

\* C8: the speed factor of a tick is 0.1 below critical, 0.1 + 0.9 *
\* (gap - critical) / (low - critical) from critical up to low, 1.0 from
\* low on; with critical = 100 and low = 1000 it is 0.1 at 50, 0.55 at
\* 550 and 1.0 at 2000.
HealthFactorPiecewise ==
    [][(call'.op = Tick /\ call'.ret /= None) =>
          LET gap == FSub(integration_time, animation_time)
              c == buffer_critical
              l == buffer_low
          IN /\ gap < c => call'.factor = 10
             /\ (c <= gap /\ gap < l) =>
                   call'.factor = FAdd(10, FMul(90, FDiv(FSub(gap, c), FSub(l, c))))
             /\ gap >= l => call'.factor = 1 * SCALE
             /\ (c = 100 * SCALE /\ l = 1000 * SCALE) =>
                   /\ gap = 50 * SCALE => call'.factor = 10
                   /\ gap = 550 * SCALE => call'.factor = 55
                   /\ gap = 2000 * SCALE => call'.factor = 1 * SCALE]_vars

\* A tick has computed the factor 0.55.
FactorOnRamp ==
    /\ call.op = Tick
    /\ call.factor = 55

\* C9: a tick while paused, or while the buffer is empty, returns no frame
\* and changes nothing, whatever the elapsed time.
IdleTickChangesNothing ==
    [][(call'.op = Tick /\ (~is_playing \/ Len(buffer_times) = 0)) =>
          /\ call'.ret = None
          /\ UNCHANGED <<buffer_times, buffer_biomass, buffer_N_by_lineage,
                         current_lineageIDs, mutation_events, animation_time,
                         integration_time, animation_speed, is_playing,
                         last_real_time, buffer_critical, buffer_low,
                         lineage_to_global_idx, global_lineage_list>>]_vars

\* A tick of 1000 s was made while paused with data ahead.
PausedTickWithData ==
    /\ call.op = Tick
    /\ call.arg > 0
    /\ call.ret = None
    /\ ~is_playing
    /\ animation_time < integration_time

\* C10: whether playback is playing or paused changes only by play() and
\* pause(); no feed, tick, set_speed or reset() changes it.
PlayStateOnlyByPlayPause ==
    [][is_playing' /= is_playing => call'.op \in {"play", "pause"}]_vars

Interp == "interpolate_biomass"
InterpEntities == "interpolate_multi_type_abundance"

\* v0 + (t - t0) / (t1 - t0) * (v1 - v0), in float arithmetic.
Linear(t0, t1, v0, v1, t) ==
    FAdd(v0, FMul(FDiv(FSub(t, t0), FSub(t1, t0)), FSub(v1, v0)))

\* C11: _interpolate_biomass(t) at a buffered time t (the first, the last
\* or one between them) returns exactly the value stored for t.
InterpolationExactAtBufferedTimes ==
    [][(call'.op = Interp /\ In(call'.arg, buffer_times)) =>
          call'.ret = <<buffer_biomass[PosOf(buffer_times, call'.arg)]>>]_vars

\* C12: with a non-empty buffer _interpolate_biomass(t) returns the first
\* value for every t at or below the first buffered time and the last
\* value for every t at or above the last one; with an empty buffer it
\* returns 0.
InterpolationClamps ==
    [][call'.op = Interp =>
          /\ Len(buffer_times) = 0 => call'.ret = <<0>>
          /\ (Len(buffer_times) > 0 /\ call'.arg <= buffer_times[1]) =>
                call'.ret = <<buffer_biomass[1]>>
          /\ (Len(buffer_times) > 0
                /\ call'.arg >= buffer_times[Len(buffer_times)]) =>
                call'.ret = <<buffer_biomass[Len(buffer_biomass)]>>]_vars

\* An interpolation beyond the last of three points has returned the last
\* value, which is neither of the other two.
ClampedBeyondLast ==
    /\ call.op = Interp
    /\ Len(buffer_times) = 3
    /\ call.arg > buffer_times[3]
    /\ call.ret = <<buffer_biomass[3]>>
    /\ buffer_biomass[3] /= buffer_biomass[2]
    /\ buffer_biomass[3] /= buffer_biomass[1]

\* C13: for t strictly between two adjacent buffered times t0 < t1 with
\* values v0 and v1, _interpolate_biomass(t) is
\* v0 + (t - t0) / (t1 - t0) * (v1 - v0) and lies between v0 and v1; with
\* the points (0, 0) and (10, 100) it is 50 at t = 5.
InterpolationLinearBetween ==
    [][call'.op = Interp =>
          /\ \A i \in 1..(Len(buffer_times) - 1) :
                (buffer_times[i] < call'.arg /\ call'.arg < buffer_times[i + 1]) =>
                   LET v0 == buffer_biomass[i]
                       v1 == buffer_biomass[i + 1]
                   IN /\ call'.ret = <<Linear(buffer_times[i], buffer_times[i + 1],
                                              v0, v1, call'.arg)>>
                      /\ Min(v0, v1) <= call'.ret[1]
                      /\ call'.ret[1] <= Max(v0, v1)
          /\ (buffer_times = <<0, 10 * SCALE>>
                /\ buffer_biomass = <<0, 100 * SCALE>>
                /\ call'.arg = 5 * SCALE) => call'.ret = <<50 * SCALE>>]_vars

\* C14: for t strictly between two adjacent buffered times,
\* _interpolate_multi_type_abundance(t) has the ids of the two bracketing
\* entity maps as its keys, each with the linear interpolation of its two
\* values, a missing one taken as 0; {A: 1} at 0 and {A: 2, B: 4} at 10
\* give {A: 1.5, B: 2.0} at 5.
EntityInterpolationUnion ==
    [][call'.op = InterpEntities =>
          /\ \A i \in 1..(Len(buffer_times) - 1) :
                (buffer_times[i] < call'.arg /\ call'.arg < buffer_times[i + 1]) =>
                   LET d0 == buffer_N_by_lineage[i]
                       d1 == buffer_N_by_lineage[i + 1]
                       ret == call'.ret[1]
                   IN /\ DOMAIN ret = (DOMAIN d0) \cup (DOMAIN d1)
                      /\ \A id \in DOMAIN ret :
                            ret[id] =
                               Linear(buffer_times[i], buffer_times[i + 1],
                                      IF id \in DOMAIN d0 THEN d0[id] ELSE 0,
                                      IF id \in DOMAIN d1 THEN d1[id] ELSE 0,
                                      call'.arg)
          /\ (buffer_times = <<0, 10 * SCALE>>
                /\ buffer_N_by_lineage =
                      <<[id \in {"A"} |-> 1 * SCALE],
                        [id \in {"A", "B"} |->
                            IF id = "A" THEN 2 * SCALE ELSE 4 * SCALE]>>
                /\ call'.arg = 5 * SCALE) =>
                call'.ret = <<[id \in {"A", "B"} |->
                                 IF id = "A" THEN 150 ELSE 2 * SCALE]>>]_vars

\* The interpolation between {A: 1} at 0 and {A: 2, B: 4} at 10 has
\* returned {A: 1.5, B: 2.0} at 5.
EntityRampedIn ==
    /\ call.op = InterpEntities
    /\ call.arg = 5 * SCALE
    /\ buffer_times = <<0, 10 * SCALE>>
    /\ DOMAIN buffer_N_by_lineage[1] = {"A"}
    /\ call.ret = <<[id \in {"A", "B"} |-> IF id = "A" THEN 150 ELSE 2 * SCALE]>>

\* a is b[:len(a)]
IsPrefix(a, b) == Len(a) <= Len(b) /\ \A i \in 1..Len(a) : a[i] = b[i]

\* C15: an entity epoch logs one mutation event when it has a previous
\* epoch in the run and more ids than that epoch, and none otherwise: the
\* first epoch of a run (no ids recorded yet) logs none.
MutationEventPerGrowth ==
    [][call'.op = EntityFeed =>
          Len(mutation_events') =
             Len(mutation_events)
               + (IF /\ current_lineageIDs /= <<>>
                     /\ Len(current_lineageIDs') > Len(current_lineageIDs)
                  THEN 1 ELSE 0)]_vars

\* C16: but for reset the event log only grows at its end, and its
\* timestamps are non-decreasing in log order in every state.
EventLogAppendOnlyMonotonic ==
    [][/\ call'.op /= "reset" => IsPrefix(mutation_events, mutation_events')
       /\ \A i \in 1..(Len(mutation_events') - 1) :
             mutation_events'[i] <= mutation_events'[i + 1]]_vars

\* C17: the registry gives each id the number of distinct ids that
\* appeared before it, across epochs and within an id list: the ordinals
\* are 0, 1, 2, ... in the order of the list of known ids, no id is twice
\* in it, an entity epoch appends its new ids in the order of its id list,
\* and no step changes the ordinal of a known id.
RegistryFirstAppearanceOrder ==
    [][/\ DOMAIN lineage_to_global_idx' =
             {global_lineage_list'[i] : i \in 1..Len(global_lineage_list')}
       /\ \A i \in 1..Len(global_lineage_list') :
             lineage_to_global_idx'[global_lineage_list'[i]] = i - 1
       /\ \A i, j \in 1..Len(global_lineage_list') :
             global_lineage_list'[i] = global_lineage_list'[j] => i = j
       /\ IsPrefix(global_lineage_list, global_lineage_list')
       /\ \A id \in DOMAIN lineage_to_global_idx :
             lineage_to_global_idx'[id] = lineage_to_global_idx[id]
       /\ call'.op = EntityFeed =>
             LET ids == call'.epoch[3]
                 new == {ids[k] : k \in 1..Len(ids)} \ DOMAIN lineage_to_global_idx
             IN /\ DOMAIN lineage_to_global_idx' =
                      (DOMAIN lineage_to_global_idx) \cup new
                /\ \A a, b \in new :
                      PosOf(ids, a) < PosOf(ids, b) =>
                         lineage_to_global_idx'[a] < lineage_to_global_idx'[b]]_vars

\* An epoch has registered A after B, and C after both: the ordinals
\* follow the appearance, not the position in the last id list.
RegisteredAcrossEpochs ==
    /\ call.op = EntityFeed
    /\ call.epoch[3] = <<"A", "B", "C">>
    /\ global_lineage_list = <<"B", "A", "C">>

\* C36: reset also clears the lineage registry: after a reset no id is
\* known, and the first id of the first entity epoch after a reset gets
\* the ordinal 0 whatever ids the earlier runs have seen.
ResetClearsRegistry ==
    [][/\ call'.op = "reset" =>
             /\ global_lineage_list' = <<>>
             /\ DOMAIN lineage_to_global_idx' = {}
       /\ (call.op = "reset" /\ call'.op = EntityFeed) =>
             lineage_to_global_idx'[call'.epoch[3][1]] = 0]_vars

\* C37: a run whose worker process has put 'completed' is never reported
\* as "process terminated unexpectedly" (the warning box), wherever the
\* final put and the exit of the process fall between the drain of a poll
\* and its liveness check.
CompletedNeverReportedTerminated ==
    ~(/\ dialog = "warning"
      /\ \E i \in 1..Len(pushed) : pushed[i] = StatusMessage("completed"))

\* C38: unless the user requests a stop, every message the worker has put
\* is drained by a poll and applied: when the polls of a run have ended
\* with the completion box (the Stop button was not used: it ends the
\* polls without a box), no message is left in the queue.
NoMessageLeftUndrained ==
    (/\ ~data_timer
     /\ dialog = "information") => data_queue = <<>>

\* C39: wall-clock time that passes while playback is paused is never
\* credited to animation_time: a frame of the animation timer is given at
\* most the time since the timer's previous frame, and it advances
\* animation_time by at most that time * animation_speed * speed factor,
\* however long the pause before it has lasted.
PausedTimeNotCredited ==
    [][(/\ call'.op = "get_next_frame"
        /\ current_time' > current_time) =>
          LET interval == current_time' - current_time
          IN /\ call'.arg <= interval
             /\ animation_time' - animation_time <=
                   delta_anim_time_of(interval, animation_speed,
                                      call'.factor)]_vars

\* The first frame that advances after a pause of three seconds or more.
FirstFrameAfterLongPause ==
    /\ call.op = "get_next_frame"
    /\ call.ret /= None
    /\ ticks = 1
    /\ animation_time > 0
    /\ paused_for >= 3 * SCALE

\* C40: while playing on a non-empty buffer with a positive speed, frames
\* of positive elapsed time bring animation_time to integration_time and
\* keep it there: a frame with a positive advance that finds
\* animation_time behind integration_time moves it forward (a frame that
\* leaves it behind where it is can repeat for ever), and a frame that
\* finds the two equal leaves them equal.
PlaybackCatchesUp ==
    [][(/\ call'.op = "get_next_frame"
        /\ is_playing
        /\ Len(buffer_times) > 0
        /\ animation_speed > 0
        /\ call'.arg > 0
        /\ delta_anim_time_of(call'.arg, animation_speed, call'.factor) > 0) =>
          /\ animation_time < integration_time =>
                animation_time' > animation_time
          /\ animation_time = integration_time =>
                animation_time' = integration_time']_vars

\* The samples of an entity epoch as the feed takes them: the ids up to the
\* number of rows, the times up to the number of columns (one for a
\* vector), and the value of row i at column j.
EpochIds(epoch) == Take(epoch[3], Min(Len(epoch[3]), epoch[2].shape0))
EpochTimes(epoch) ==
    Take(epoch[1].val,
         Min(Len(epoch[1].val), IF epoch[2].ndim > 1 THEN epoch[2].shape1 ELSE 1))
EpochValue(epoch, i, j) == epoch[2].rows[i][IF epoch[2].ndim > 1 THEN j ELSE 1]
\* The samples of the epoch at time t, and the last of them.
SamplesAt(epoch, t) ==
    {j \in 1..Len(EpochTimes(epoch)) : EpochTimes(epoch)[j] = t}
LastSampleAt(epoch, t) ==
    CHOOSE j \in SamplesAt(epoch, t) : \A j2 \in SamplesAt(epoch, t) : j2 <= j

\* C18: for each time of an entity epoch that is buffered, the feed writes
\* row i / column j of the matrix for the i-th id and the j-th time into
\* the entity map at the index of the time; ids of that map that are not
\* in the epoch keep their values; the maps of all other times,
\* buffer_times and buffer_biomass are unchanged.
EntityFeedMergesAtIndex ==
    [][call'.op = EntityFeed =>
          LET epoch == call'.epoch
              ids == EpochIds(epoch)
              idset == {ids[i] : i \in 1..Len(ids)}
          IN /\ UNCHANGED <<buffer_times, buffer_biomass>>
             /\ Len(buffer_N_by_lineage') = Len(buffer_N_by_lineage)
             /\ \A k \in 1..Len(buffer_times) :
                   LET old == buffer_N_by_lineage[k]
                       new == buffer_N_by_lineage'[k]
                   IN IF SamplesAt(epoch, buffer_times[k]) = {}
                      THEN new = old
                      ELSE /\ DOMAIN new = (DOMAIN old) \cup idset
                           /\ \A i \in 1..Len(ids) :
                                 new[ids[i]] =
                                    EpochValue(epoch, i,
                                               LastSampleAt(epoch, buffer_times[k]))
                           /\ \A id \in (DOMAIN old) \ idset :
                                 new[id] = old[id]]_vars

\* An epoch of two times has written its first column for A at the first
\* time, where B kept the value of an earlier epoch, and its second column
\* at the second time.
MergedBothColumns ==
    /\ call.op = EntityFeed
    /\ call.epoch[1].val = <<50 * SCALE, 550 * SCALE>>
    /\ call.epoch[2].shape1 = 2
    /\ buffer_times = <<50 * SCALE, 550 * SCALE>>
    /\ buffer_N_by_lineage[1] = [id \in {"A", "B"} |-> 1 * SCALE]
    /\ buffer_N_by_lineage[2] = [id \in {"A"} |-> 2 * SCALE]

\* C19: when an entity epoch has a time that is not in buffer_times, only
\* that sample is skipped: no buffer gets an entry for it, the samples of
\* the epoch whose times are buffered are applied, and the call returns.
MissingTimeSkipsOneSample ==
    [][(/\ call'.op = EntityFeed
        /\ \E j \in 1..Len(EpochTimes(call'.epoch)) :
              ~In(EpochTimes(call'.epoch)[j], buffer_times)) =>
          LET epoch == call'.epoch
              ids == EpochIds(epoch)
              times == EpochTimes(epoch)
          IN /\ buffer_times' = buffer_times
             /\ Len(buffer_biomass') = Len(buffer_biomass)
             /\ Len(buffer_N_by_lineage') = Len(buffer_N_by_lineage)
             /\ call'.ret = None
             /\ \A j \in 1..Len(times) :
                   (In(times[j], buffer_times)
                      /\ j = LastSampleAt(epoch, times[j])) =>
                      \A i \in 1..Len(ids) :
                         LET new == buffer_N_by_lineage'[PosOf(buffer_times,
                                                               times[j])]
                         IN /\ ids[i] \in DOMAIN new
                            /\ new[ids[i]] = EpochValue(epoch, i, j)]_vars

\* An epoch whose first time is not buffered has written its second
\* sample at the buffered time.
SkippedFirstAppliedSecond ==
    /\ call.op = EntityFeed
    /\ call.epoch[1].val = <<2000 * SCALE, 550 * SCALE>>
    /\ call.epoch[2].shape1 = 2
    /\ buffer_times = <<550 * SCALE>>
    /\ buffer_N_by_lineage = <<[id \in {"A"} |-> 2 * SCALE]>>

\* C20: given a time array and a value array of different lengths,
\* add_data_chunk pairs them position by position up to the shorter
\* length and inserts those pairs, but for the times already buffered (a
\* time twice among the pairs takes its first value); it ignores the
\* surplus elements and returns.
LengthMismatchTruncates ==
    [][(/\ call'.op = Feed
        /\ call'.epoch[1].ndarray
        /\ Len(call'.epoch[1].val) /= Len(call'.epoch[2].val)) =>
          LET t == call'.epoch[1].val
              b == call'.epoch[2].val
              n == Min(Len(t), Len(b))
              paired == {t[k] : k \in 1..n}
              First(x) == CHOOSE k \in 1..n :
                             t[k] = x /\ \A k2 \in 1..(k - 1) : t[k2] /= x
          IN /\ {buffer_times'[i] : i \in 1..Len(buffer_times')} =
                   {buffer_times[i] : i \in 1..Len(buffer_times)} \cup paired
             /\ Len(buffer_biomass') = Len(buffer_times')
             /\ \A i \in 1..Len(buffer_times') :
                   buffer_biomass'[i] =
                      IF In(buffer_times'[i], buffer_times)
                      THEN buffer_biomass[PosOf(buffer_times, buffer_times'[i])]
                      ELSE b[First(buffer_times'[i])]
             /\ call'.ret = None]_vars

\* A feed of two times and one value has inserted the first time and not
\* the second.
SurplusTimeIgnored ==
    /\ call.op = Feed
    /\ call.epoch[1].ndarray
    /\ Len(call.epoch[1].val) = 2
    /\ Len(call.epoch[2].val) = 1
    /\ buffer_times = <<call.epoch[1].val[1]>>
    /\ buffer_biomass = call.epoch[2].val
    /\ call.epoch[1].val[2] /= call.epoch[1].val[1]

Polls == {"poll_data", "on_poll_timer"}

\* The status messages among msgs.
Statuses(msgs) == {i \in 1..Len(msgs) : msgs[i].status /= ""}

\* C22: a run of the worker process puts at most one status message and
\* nothing after it; a run that has ended on its own has put exactly one,
\* 'completed' when community.run returned and 'error' otherwise.
ExactlyOneStatus ==
    /\ Cardinality(Statuses(pushed)) <= 1
    /\ \A i \in Statuses(pushed) : i = Len(pushed)
    /\ (process = "dead" /\ worker_pc = "return") =>
          /\ Cardinality(Statuses(pushed)) = 1
          /\ pushed[Len(pushed)].status =
                IF outcome = "finished" THEN "completed" ELSE "error"

\* A run that raised after an epoch has ended with the data message and
\* the 'error' status.
EndedWithErrorAfterData ==
    /\ process = "dead"
    /\ worker_pc = "return"
    /\ outcome = "failed"
    /\ Len(pushed) = 2
    /\ pushed[1].status = ""
    /\ pushed[2].status = "error"

\* C23: a live worker process can always take its next step: no put of a
\* data message or of a status message waits for the consumer.
PushNeverBlocks == process = "alive" => ENABLED Worker

\* The messages of the queue are the last ones put, in the order of the
\* puts.
QueueIsTailOfPushed ==
    /\ Len(data_queue) <= Len(pushed)
    /\ \A i \in 1..Len(data_queue) :
          data_queue[i] = pushed[Len(pushed) - Len(data_queue) + i]

\* C24: a poll that calls get_data returns the messages of the queue,
\* oldest first (the empty list for an empty queue), and leaves the queue
\* empty, in one step in which the worker puts nothing; the queue holds
\* the messages in the order of the puts.
PollDrainsInPushOrder ==
    [][/\ QueueIsTailOfPushed
       /\ QueueIsTailOfPushed'
       /\ (call'.op \in Polls /\ call'.ret /= None) =>
             /\ call'.ret = <<data_queue>>
             /\ data_queue' = <<>>
             /\ pushed' = pushed]_vars

\* A poll has returned two data messages in the order of their puts.
PolledTwoInOrder ==
    /\ call.op \in Polls
    /\ call.ret = <<<<DataMessage(1), DataMessage(2)>>>>
    /\ Len(pushed) >= 2
    /\ pushed[1] = DataMessage(1)
    /\ pushed[2] = DataMessage(2)

\* The (time, value) pairs of epoch k.
EpochPairs(k) ==
    LET t == TList(BridgeEpochs[k].t_epoch)
        b == BiomassList(BridgeEpochs[k].biomass_epoch)
    IN {<<t[j], b[j]>> : j \in 1..Min(Len(t), Len(b))}

\* C25: whatever the worker drops on a full queue, in every state of a
\* window the buffered times are strictly increasing, the three buffers
\* have one length, and every buffered (time, value) is a pair of an epoch
\* that this run handed to progress_callback.
DroppedEpochsLeaveBuffersSound ==
    /\ \A i \in 1..(Len(buffer_times) - 1) : buffer_times[i] < buffer_times[i + 1]
    /\ Len(buffer_biomass) = Len(buffer_times)
    /\ Len(buffer_N_by_lineage) = Len(buffer_times)
    /\ \A i \in 1..Len(buffer_times) :
          \E k \in emitted : <<buffer_times[i], buffer_biomass[i]>> \in EpochPairs(k)

\* The third epoch of a run was dropped on a full queue, and a poll has
\* fed the two epochs that were queued, the later time first.
FedAroundDroppedEpoch ==
    /\ call.op \in Polls
    /\ callback_call_count = 3
    /\ emitted = {1, 2, 3}
    /\ pushed = <<DataMessage(1), DataMessage(2)>>
    /\ buffer_times = <<50 * SCALE, 550 * SCALE>>
    /\ buffer_biomass = <<10 * SCALE, 30 * SCALE>>

\* C26: a run whose computation failed is never reported with the dialog
\* "Simulation Complete"; the poll that gets the 'error' status shows the
\* error dialog, leaves the worker stopped and both timers stopped, and
\* keeps what is buffered.
FatalFailureHaltsRun ==
    [][/\ outcome' = "failed" => dialog' /= "information"
       /\ (/\ call'.op \in Polls
           /\ call'.ret /= None
           /\ In(StatusMessage("error"), call'.ret[1])) =>
             /\ dialog' = "critical"
             /\ process' /= "alive"
             /\ ~data_timer'
             /\ ~animation_timer'
             /\ Len(buffer_times') >= Len(buffer_times)]_vars

\* C27: on_stop_clicked terminates a live process, kills it exactly when
\* it is alive after the grace period, and leaves it dead; it leaves a
\* process that is not alive as it is; it stops both timers. No poll fires
\* while the poll timer is stopped and no tick while the animation timer
\* is stopped, and only on_run_clicked starts a timer.
StopHaltsRun ==
    [][/\ call'.op = "on_stop_clicked" =>
             /\ call'.stop.terminated = (process = "alive")
             /\ call'.stop.killed =
                   (process = "alive" /\ call'.stop.alive_after_grace)
             /\ process' /= "alive"
             /\ process /= "alive" =>
                   (process' = process /\ worker_pc' = worker_pc)
             /\ ~data_timer'
             /\ ~animation_timer'
       /\ ~data_timer => call'.op \notin Polls
       /\ ~animation_timer => call'.op /= Tick
       /\ ((data_timer' /\ ~data_timer) \/ (animation_timer' /\ ~animation_timer))
             => call'.op = "on_run_clicked"]_vars

\* A stop has killed a process that outlived the grace period.
StoppedByKill ==
    /\ call.op = "on_stop_clicked"
    /\ call.stop.alive_after_grace
    /\ call.stop.killed
    /\ process = "dead"
    /\ ~data_timer
    /\ ~animation_timer

\* C28: after reset() (on its own, or as on_run_clicked calls it) the time
\* buffer, the value buffer, the entity-map buffer, the current id list
\* and the event log are empty and animation_time and integration_time are
\* 0, as after construction.
ResetEmptiesBuffers ==
    call.op \in {"reset", "on_run_clicked"} =>
       /\ buffer_times = <<>>
       /\ buffer_biomass = <<>>
       /\ buffer_N_by_lineage = <<>>
       /\ current_lineageIDs = <<>>
       /\ mutation_events = <<>>
       /\ animation_time = 0
       /\ integration_time = 0

\* A second run has begun after entity epochs of the first were fed (their
\* ids are registered).
SecondRunStartsEmpty ==
    /\ call.op = "on_run_clicked"
    /\ runs = 2
    /\ global_lineage_list = <<"A", "B">>
    /\ buffer_times = <<>>
    /\ mutation_events = <<>>
    /\ animation_time = 0


\* C29: animation_speed lies in [0.1, 10.0] in every state, whatever speed
\* set_speed was given and whatever default_speed the constructor was
\* given; set_speed stores a speed below the range as 0.1, one above it as
\* 10.0 and one inside it unchanged.
SpeedWithinRange ==
    /\ 10 <= animation_speed
    /\ animation_speed <= 10 * SCALE
    /\ call.op = "set_speed" =>
          animation_speed = IF call.arg < 10 THEN 10
                            ELSE IF call.arg > 10 * SCALE THEN 10 * SCALE
                            ELSE call.arg


\* The arguments and the return value of a call that has returned.
AlignX == ravel(call.epoch[1])
AlignY == ravel(call.epoch[2])
AlignRet == call.ret[1]

\* C30: whenever align_xy_for_interp returns valid, x and y have one
\* length, at least min_points, every element is finite, x is strictly
\* increasing, and every (x, y) it returns stood at one position of the
\* two arguments.
AlignedOutputIsClean ==
    (call.op = "align_xy_for_interp" /\ call.ret /= None /\ AlignRet.valid) =>
       /\ Len(AlignRet.x) = Len(AlignRet.y)
       /\ Len(AlignRet.x) >= call.arg
       /\ \A i \in 1..Len(AlignRet.x) :
             isfinite(AlignRet.x[i]) /\ isfinite(AlignRet.y[i])
       /\ \A i \in 1..(Len(AlignRet.x) - 1) : AlignRet.x[i] < AlignRet.x[i + 1]
       /\ \A i \in 1..Len(AlignRet.x) :
             \E j \in 1..Min(Len(AlignX), Len(AlignY)) :
                AlignX[j] = AlignRet.x[i] /\ AlignY[j] = AlignRet.y[i]


\* The distinct x values of the positions, up to the shorter length, where
\* both x and y are finite.
DistinctFiniteX ==
    {AlignX[j] : j \in {k \in 1..Min(Len(AlignX), Len(AlignY)) :
                           isfinite(AlignX[k]) /\ isfinite(AlignY[k])}}

\* C31: align_xy_for_interp returns (None, None) and valid False exactly
\* when x or y is empty or fewer than min_points distinct x values with
\* finite x and y remain after the truncation to the shorter length; in
\* every other case it returns valid.
InvalidExactlyWhenTooFewPoints ==
    (call.op = "align_xy_for_interp" /\ call.ret /= None) =>
       /\ AlignRet.valid =
             ~(\/ Len(AlignX) = 0
               \/ Len(AlignY) = 0
               \/ Cardinality(DistinctFiniteX) < call.arg)
       /\ ~AlignRet.valid => (AlignRet.x = None /\ AlignRet.y = None)

\* Two finite points with one x are not enough for min_points = 2.
DuplicatePointsInvalid ==
    /\ call.op = "align_xy_for_interp"
    /\ call.ret /= None
    /\ call.arg = 2
    /\ AlignX = <<1 * SCALE, 1 * SCALE>>
    /\ Len(AlignY) = 2
    /\ isfinite(AlignY[1]) /\ isfinite(AlignY[2])
    /\ ~AlignRet.valid


\* C32: the timestamp an entity epoch appends to the event log for a
\* growth of the id list is the earliest time of that epoch.
EventStampedWithFirstTime ==
    [][(/\ call'.op = EntityFeed
        /\ current_lineageIDs /= <<>>
        /\ Len(mutation_events') > Len(mutation_events)) =>
          \A j \in 1..Len(EpochTimes(call'.epoch)) :
             mutation_events'[Len(mutation_events')]
                <= EpochTimes(call'.epoch)[j]]_vars


\* C35: _interpolate_multi_type_abundance(t) at a buffered time t, the
\* first, the last or one between them, returns the entity map buffered
\* for t: its ids and its values, and no other id.
EntityInterpolationExactAtBufferedTimes ==
    [][call'.op = InterpEntities =>
          \A i \in 1..Len(buffer_times) :
             buffer_times[i] = call'.arg =>
                /\ DOMAIN call'.ret[1] = DOMAIN buffer_N_by_lineage[i]
                /\ \A id \in DOMAIN buffer_N_by_lineage[i] :
                      call'.ret[1][id] = buffer_N_by_lineage[i][id]]_vars


Queries ==
    {"interpolate_biomass", "interpolate_multi_type_abundance",
     "get_speed_factor", "get_buffer_status", "get_mutation_events_in_range"}

\* C33: _interpolate_biomass, _interpolate_multi_type_abundance,
\* get_speed_factor, get_buffer_status and get_mutation_events_in_range
\* leave the three buffers, the current ids, the event log, both times and
\* the play state as they are, and so does a caller that writes into the
\* dict _interpolate_multi_type_abundance returned.
QueriesArePure ==
    [][call'.op \in Queries \cup {"caller_sets_key"} =>
          UNCHANGED <<buffer_times, buffer_biomass, buffer_N_by_lineage,
                      current_lineageIDs, mutation_events, animation_time,
                      integration_time, is_playing>>]_vars

\* A caller has written into the dict returned for a time at or before the
\* first buffered one, whose buffered dict has an id and lacks the
\* caller's key.
CallerWroteIntoCopy ==
    /\ call.op = "caller_sets_key"
    /\ Len(buffer_times) > 0
    /\ call.arg <= buffer_times[1]
    /\ DOMAIN buffer_N_by_lineage[1] = {"A"}
    /\ DOMAIN call.ret[1] = {"A", "caller"}


\* Buffer gaps below, at and above the thresholds.
GapSamples ==
    {0, 50 * SCALE, 100 * SCALE, 550 * SCALE, 999 * SCALE, 1000 * SCALE,
     2000 * SCALE}

\* C34: whatever the two thresholds, get_speed_factor is in [0.1, 1.0] for
\* every gap and does not decrease as the gap grows, and get_buffer_status
\* reports 'healthy' exactly when its speed_factor is 1.0.
SpeedFactorMatchesHealth ==
    /\ \A g \in GapSamples :
          /\ 10 <= speed_factor_of(g, buffer_critical, buffer_low)
          /\ speed_factor_of(g, buffer_critical, buffer_low) <= 1 * SCALE
    /\ \A g1, g2 \in GapSamples :
          g1 <= g2 => speed_factor_of(g1, buffer_critical, buffer_low)
                         <= speed_factor_of(g2, buffer_critical, buffer_low)
    /\ call.op \in {"get_speed_factor", "get_buffer_status"} =>
          (call.ret /= None)
    /\ call.op = "get_buffer_status" =>
          /\ 10 <= call.ret[1].speed_factor
          /\ call.ret[1].speed_factor <= 1 * SCALE
          /\ (call.ret[1].health = "healthy")
                = (call.ret[1].speed_factor = 1 * SCALE)

====
